---- MODULE Spec2Model ----
\* Model of the image classification service: the /classify pipeline of
\* app/api/endpoints.py, the result cache of app/middleware/cache.py (a
\* cachetools TTLCache) and the CachingLayer of performance/optimization.py.
EXTENDS Integers, Sequences, FiniteSets, TLC

VARIABLES
    process,     \* the process the behaviour follows: the service or the benchmark tool
    now,         \* the clock read by the caches (time.monotonic / time.time)
    cache,       \* app.middleware.cache.cache: entries in least-recently-used order
    classifier,  \* app.api.endpoints.classifier: "none" or "loaded"
    req,         \* per request slot: position in the handler, inputs, outcome
    served,      \* number of requests accepted so far
    inserted,    \* history: the stores still standing, with the run each one kept
    kin,         \* inputs of the fingerprint that is being examined
    kout,        \* the two fingerprints computed from kin
    layer,       \* CachingLayer.cache: key -> (value, timestamp)
    lres,        \* outcome of the latest CachingLayer operation
    lhist,       \* history: key -> (value, time) of the CachingLayer set still standing
    fill,        \* history: the stores into the result cache since it was empty
    lfill,       \* history: the sets into the CachingLayer since it was empty
    lock,        \* CachingLayer.lock: "free" or the thread that holds it
    thr,         \* per thread: the CachingLayer method it is in and its locals
    loads,       \* history: the ImageClassifier instances constructed so far, and
                 \* whether the latest attempt to construct one raised
    lb           \* a LoadBalancer, the threads inside get_next_endpoint and the
                 \* endpoints it has handed out

vars == <<process, now, cache, classifier, req, served, inserted,
          kin, kout, layer, lres, lhist, fill, lfill, lock, thr, loads, lb>>

-----------------------------------------------------------------------------
\* Bounds of the model

MaxTime == 2
MaxRequests == 4
MaxKeyBytes == 2
MaxLayerOps == 4
MaxEndpoints == 3
MaxCalls == 5

\* Configuration of the program, scaled down so that expiry and eviction occur
maxsize == 2
ttl == 2
LayerMaxSize == 2
LayerTtl == 2

\* Limits written in the handlers
MaxImageBytes == 10000000
MaxDimension == 1024
MinTopK == 1
MaxTopK == 10

Requests == {"r1", "r2"}

Threads == {"t1", "t2"}

-----------------------------------------------------------------------------
\* Byte strings.  A byte string is head, then pad filler bytes (NUL), then
\* tail; tail is empty when pad is 0, and no head or tail symbol is NUL, so
\* equal records are equal byte strings and conversely.

Bytes(head, pad) == [head |-> head, pad |-> pad, tail |-> <<>>]

BytesLen(b) == Len(b.head) + b.pad + Len(b.tail)

BytesConcat(b, s) ==
    IF b.pad = 0
    THEN [head |-> b.head \o s, pad |-> 0, tail |-> <<>>]
    ELSE [head |-> b.head, pad |-> b.pad, tail |-> b.tail \o s]

DigitChar == <<"0", "1", "2", "3", "4", "5", "6", "7", "8", "9">>

RECURSIVE NatStr(_)
NatStr(n) ==
    IF n < 10 THEN <<DigitChar[n + 1]>>
    ELSE NatStr(n \div 10) \o <<DigitChar[(n % 10) + 1]>>

\* str(top_k).encode()
IntStr(n) == IF n < 0 THEN <<"-">> \o NatStr(0 - n) ELSE NatStr(n)

\* hashlib.sha256(content).hexdigest(): an opaque token, one per content
Sha256Hex(content) == [sha256 |-> content]

\* Mutant: the key leaves top_k out
KeyIgnoresTopK(image_bytes, top_k) == Sha256Hex(BytesConcat(image_bytes, <<>>))

image_cache_key(image_bytes, top_k) ==
    LET content == BytesConcat(image_bytes, IntStr(top_k))
    IN  Sha256Hex(content)

-----------------------------------------------------------------------------
\* Inputs of the service

NoContentType == <<>>

ImgA    == Bytes(<<"I", "a">>, 0)
NotImg  == Bytes(<<"n", "o", "t">>, 0)
ZeroImg == Bytes(<<"I", "z">>, 0)
BigImg  == Bytes(<<"I", "L">>, MaxImageBytes - 2)
OverImg == Bytes(<<"I", "a">>, MaxImageBytes - 1)

\* The requests the first client sends: the two images with every valid
\* top_k, each faulty payload once, and the rejected combinations
ClassifyInputs ==
    {[ct |-> <<"image/", "jpeg">>, payload |-> p, top_k |-> k] :
        p \in {ImgA, BigImg}, k \in {1, 10}}
    \cup {[ct |-> <<"image/", "jpeg">>, payload |-> p, top_k |-> 1] :
            p \in {NotImg, ZeroImg, OverImg}}
    \cup {[ct |-> <<"image/", "jpeg">>, payload |-> ImgA, top_k |-> k] : k \in {0, 11}}
    \cup {[ct |-> NoContentType, payload |-> ImgA, top_k |-> 1],
          [ct |-> <<"text/", "plain">>, payload |-> OverImg, top_k |-> 1],
          [ct |-> <<"text/", "plain">>, payload |-> NotImg, top_k |-> 11]}

\* The second client repeats one request, with the right and a wrong type
RepeatInputs ==
    {[ct |-> ct, payload |-> ImgA, top_k |-> 1] :
        ct \in {<<"image/", "jpeg">>, <<"text/", "plain">>}}

InputsOf(r) == IF r = "r1" THEN ClassifyInputs ELSE RepeatInputs

\* PIL's Image.open: a payload that starts with the magic symbol decodes, the
\* symbol after it gives the dimensions; anything else is not an image.
Decodes(b) == Len(b.head) >= 2 /\ b.head[1] = "I"

Decode(b) ==
    [pixels |-> b,
     w |-> IF b.head[2] = "z" THEN 0 ELSE IF b.head[2] = "L" THEN 2048 ELSE 224,
     h |-> IF b.head[2] = "L" THEN 1024 ELSE 224]

\* image.thumbnail((1024, 1024)): keeps the aspect ratio, never enlarges
Thumbnail(img) ==
    LET big == IF img.w >= img.h THEN img.w ELSE img.h
    IN  IF big <= MaxDimension THEN img
        ELSE [img EXCEPT !.w = (img.w * MaxDimension) \div big,
                         !.h = (img.h * MaxDimension) \div big]

\* Outcomes of one run of the external classifier: it returns its ranking
\* after some wall-clock milliseconds, or it raises.
Runs == {[ok |-> TRUE, ms |-> 12], [ok |-> FALSE, ms |-> 0]}

ClassBase(img) ==
    IF img.pixels = ImgA THEN 100 ELSE 300

\* Mutant: the classifier returns its default of five classes
PredictDefaultK(img, top_k) ==
    [j \in 1..5 |->
        [class_name |-> "class", probability |-> 100 - (8 * j),
         class_id |-> ClassBase(img) + j]]

\* ImageClassifier.predict: the top_k classes in descending probability
Predict(img, top_k) ==
    [j \in 1..top_k |->
        [class_name |-> "class",
         probability |-> 100 - (8 * j),
         class_id |-> ClassBase(img) + j]]

\* ImageClassifier.get_model_info
ModelInfo == [model_name |-> "resnet50", framework |-> "PyTorch"]

\* The body of a response that carries no classification (None in the code)
NoBody == [predictions |-> <<>>, model_info |-> ModelInfo, processing_time_ms |-> -1]

-----------------------------------------------------------------------------
\* cachetools.TTLCache(maxsize, ttl) as the service uses it.  The cache is the
\* sequence of its entries in least-recently-used order (first = next victim);
\* an entry is [key, value, expires].

Keys(c) == {c[i].key : i \in 1..Len(c)}

Entry(c, key) == c[CHOOSE i \in 1..Len(c) : c[i].key = key]

Without(c, key) == SelectSeq(c, LAMBDA e : e.key # key)

\* Mutant: an entry still counts at the instant it expires
CacheContainsInclusive(c, key, t) ==
    \E i \in 1..Len(c) : c[i].key = key /\ t <= c[i].expires

\* TTLCache.__contains__: stored and not yet expired
CacheContains(c, key, t) == \E i \in 1..Len(c) : c[i].key = key /\ t < c[i].expires

\* TTLCache.expire: drop every entry whose time has come
Expire(c, t) == SelectSeq(c, LAMBDA e : t < e.expires)

\* Mutant: a lookup that finds the key expired removes the entry
CacheGetPurging(c, key, t) ==
    IF CacheContains(c, key, t)
    THEN [found |-> TRUE, result |-> Entry(c, key).value,
          cache |-> Append(Without(c, key), Entry(c, key)), raised |-> FALSE]
    ELSE [found |-> FALSE, result |-> NoBody, cache |-> Without(c, key), raised |-> FALSE]

\* Cache.get -> TTLCache.__getitem__: a live entry becomes most recently used
CacheGet(c, key, t) ==
    IF CacheContains(c, key, t)
    THEN [found |-> TRUE, result |-> Entry(c, key).value,
          cache |-> Append(Without(c, key), Entry(c, key)), raised |-> FALSE]
    ELSE [found |-> FALSE, result |-> NoBody, cache |-> c, raised |-> FALSE]

\* Cache.popitem while the new entry does not fit: least recently used first
RECURSIVE MakeRoom(_)
MakeRoom(c) == IF Len(c) + 1 > maxsize /\ Len(c) > 0 THEN MakeRoom(Tail(c)) ELSE c

\* TTLCache.__setitem__: expire, make room for a new key, store, relink last
CacheSet(c, key, value, t) ==
    LET live == Expire(c, t)
        room == IF key \in Keys(live) THEN live ELSE MakeRoom(live)
    IN  Append(Without(room, key),
               [key |-> key, value |-> value, expires |-> t + ttl])

\* TTLCache.__len__: expired entries are not counted
CacheLen(c, t) == Len(Expire(c, t))

\* get_cached_result: an exception inside cache.get is caught and logged, and
\* None is returned; nothing is raised to the caller
get_cached_result(c, cache_key, t, fault) ==
    IF fault THEN [found |-> FALSE, result |-> NoBody, cache |-> c, raised |-> FALSE]
    ELSE CacheGet(c, cache_key, t)

\* Mutant: the store lets the exception through
SetRaises(c, cache_key, result, t, fault) ==
    IF fault THEN [cache |-> c, stored |-> FALSE, raised |-> TRUE]
    ELSE [cache |-> CacheSet(c, cache_key, result, t), stored |-> TRUE, raised |-> FALSE]

\* set_cached_result: an exception inside the store is caught and logged;
\* nothing is stored and nothing is raised to the caller
set_cached_result(c, cache_key, result, t, fault) ==
    IF fault THEN [cache |-> c, stored |-> FALSE, raised |-> FALSE]
    ELSE [cache |-> CacheSet(c, cache_key, result, t), stored |-> TRUE, raised |-> FALSE]

\* get_cache_stats
get_cache_stats(c, t) == [cache_size |-> CacheLen(c, t), max_size |-> maxsize, ttl |-> ttl]

\* The stored dict is the object the handler got back: what the handler
\* writes into the hit is written into the entry.
WriteBack(c, key, value) ==
    [i \in 1..Len(c) |-> IF c[i].key = key THEN [c[i] EXCEPT !.value = value] ELSE c[i]]

-----------------------------------------------------------------------------
\* POST /classify (classify_image)

\* Mutant: the lower limit of top_k is missing
TopKValidUpperOnly(top_k) == top_k <= MaxTopK

\* top_k: int = Form(5, ge=1, le=10), checked by the framework before the handler
TopKValid(top_k) == MinTopK <= top_k /\ top_k <= MaxTopK

\* Mutant: any declared content type passes
ContentTypeAnyDeclared(ct) == ct # NoContentType

\* file.content_type and file.content_type.startswith("image/")
ContentTypeOk(ct) == ct # NoContentType /\ ct[1] = "image/"

\* Mutant: the limit itself is refused
TooLargeInclusive(image_data) == BytesLen(image_data) >= MaxImageBytes

\* len(image_data) > 10_000_000
TooLarge(image_data) == BytesLen(image_data) > MaxImageBytes

\* image.size[0] == 0 or image.size[1] == 0
ZeroDimensions(img) == img.w = 0 \/ img.h = 0

\* PredictionResponse(class_name=str(..), probability=float(..), class_id=int(..))
PredictionResponse(pred) ==
    [class_name |-> pred.class_name,
     probability |-> pred.probability,
     class_id |-> pred.class_id]

\* ClassificationResponse(predictions, model_info, processing_time_ms)
ClassificationResponse(predictions, model_info, ms) ==
    [predictions |-> [j \in 1..Len(predictions) |-> PredictionResponse(predictions[j])],
     model_info |-> model_info,
     processing_time_ms |-> ms]

\* Mutant: the hit keeps the stored processing time
HitResponseStale(cached_result) == cached_result

\* cached_result['processing_time_ms'] = 0.0: the cached dict with its time zeroed
HitResponse(cached_result) == [cached_result EXCEPT !.processing_time_ms = 0]

\* The status an exception other than HTTPException ends with
UnexpectedErrorStatus == 500

\* The status Image.open's exception ends with: it is no HTTPException
DecodeErrorStatus == UnexpectedErrorStatus

\* None, where the code has an optional value: the empty sequence; a value
\* that is present is the sequence of that one value
Null == <<>>

\* HealthResponse (schemas.py)
HealthResponse(status, model_loaded, model_info) ==
    [status |-> status, model_loaded |-> model_loaded, model_info |-> model_info]

\* No health response has been made
NoHealth == HealthResponse("none", FALSE, Null)

IdleRequest ==
    [pc |-> "idle", kind |-> "none", ct |-> NoContentType, payload |-> Bytes(<<>>, 0),
     top_k |-> 0, status |-> 0, response |-> NoBody, steps |-> <<>>,
     age |-> -1, known |-> FALSE, expected |-> NoBody,
     getFault |-> FALSE, setFault |-> FALSE, runOk |-> FALSE, loadOk |-> FALSE,
     files |-> <<>>, results |-> <<>>, total_files |-> 0, successful_files |-> 0,
     batch_ms |-> 0, health |-> NoHealth, model_info |-> Null, infoOk |-> FALSE,
     retried |-> FALSE]

\* Mutant: after an unexpected error the handler tries the request again
FinishedRetries(q, status, response, steps) ==
    IF status = UnexpectedErrorStatus
    THEN [q EXCEPT !.pc = "reading", !.steps = q.steps \o steps]
    ELSE [q EXCEPT !.pc = "done", !.status = status, !.response = response,
                   !.steps = q.steps \o steps]

\* raise HTTPException(...) or return response: the request is over
Finished(q, status, response, steps) ==
    [q EXCEPT !.pc = "done", !.status = status, !.response = response,
              !.steps = q.steps \o steps]

\* History: the standing store for (bytes, top_k), if any
Standing(b, k) == {e \in inserted : e.b = b /\ e.k = k}

Age(b, k) ==
    IF Standing(b, k) = {} THEN -1
    ELSE now - (CHOOSE e \in Standing(b, k) : TRUE).t0

\* No outcome is waiting to be observed
Quiet == \A r \in Requests : req[r].pc \notin {"done", "cancelled"}

\* A batch is between its first and its last file.  The steps of a batch read
\* and write nothing but the batch's own results, so they commute with the
\* steps of every other request; the model runs them without interleaving.
BatchRunning == \E r \in Requests : req[r].pc = "batch"

\* A handler is inside clf.predict.  The handlers are coroutines of one event
\* loop and predict is an ordinary call, so until it returns the loop runs
\* nothing else; a run is short against the unit of the clock.
Classifying == \E r \in Requests : req[r].pc = "classifying"

\* Lines 75-105: the framework's validation of top_k, the content type check,
\* then the handler waits for the payload.
classify_image_enter(r, ct, payload, top_k) ==
    /\ process = "service"
    /\ Quiet
    /\ ~BatchRunning
    /\ ~Classifying
    /\ req[r].pc = "idle"
    /\ served < MaxRequests
    /\ served' = served + 1
    /\ LET q == [IdleRequest EXCEPT !.kind = "classify", !.ct = ct,
                                    !.payload = payload, !.top_k = top_k]
       IN  req' = [req EXCEPT ![r] =
                IF ~TopKValid(top_k)
                THEN Finished(q, 422, NoBody, <<"top_k_rejected">>)
                ELSE IF ~ContentTypeOk(ct)
                THEN Finished(q, 400, NoBody, <<"content_type">>)
                ELSE [q EXCEPT !.pc = "reading", !.steps = <<"content_type">>]]
    /\ UNCHANGED <<process, lb, loads, now, cache, classifier, inserted, kin, kout, layer, lres, lhist, fill, lfill, lock, thr>>

\* Mutant: every call constructs a classifier, whatever the global holds
get_classifier_reloads(cur, loadOk) ==
    IF loadOk THEN [ok |-> TRUE, classifier |-> "loaded", constructed |-> TRUE]
    ELSE [ok |-> FALSE, classifier |-> cur, constructed |-> FALSE]

\* get_classifier: the loaded instance, or a load that succeeds or raises
get_classifier(cur, loadOk) ==
    IF cur = "loaded" THEN [ok |-> TRUE, classifier |-> "loaded", constructed |-> FALSE]
    ELSE IF loadOk THEN [ok |-> TRUE, classifier |-> "loaded", constructed |-> TRUE]
    ELSE [ok |-> FALSE, classifier |-> "none", constructed |-> FALSE]

\* History: what a call of get_classifier did about the load
LoadOutcome(clf) ==
    IF clf.constructed THEN "constructed" ELSE IF ~clf.ok THEN "raised" ELSE "none"

\* History: loads after a call with that outcome
LoadsAfter(outcome) ==
    IF outcome = "constructed"
    THEN [constructed |-> loads.constructed + 1, failed |-> FALSE]
    ELSE IF outcome = "raised" THEN [loads EXCEPT !.failed = TRUE]
    ELSE loads

\* History: the call constructs the classifier after an attempt that raised
Retried(outcome) == loads.failed /\ outcome = "constructed"

\* Lines 105-167, from the payload's arrival to the response, given the
\* outcomes of the environment: the classifier's run, the model load, and
\* whether the cache faults on the lookup or on the store.
classify_image_body(q, run, loadOk, getFault, setFault) ==
    LET image_data == q.payload
        top_k      == q.top_k
        cache_key  == image_cache_key(image_data, top_k)
        looked     == get_cached_result(cache, cache_key, now, getFault)
        image      == Decode(image_data)
        resized    == Thumbnail(image)
        clf        == get_classifier(classifier, loadOk)
        predictions == Predict(resized, top_k)
        response   == ClassificationResponse(predictions, ModelInfo, run.ms)
        saved      == set_cached_result(looked.cache, cache_key, response, now, setFault)
        same       == [status |-> 0, response |-> NoBody, steps |-> <<>>,
                       cache |-> cache, classifier |-> classifier,
                       looked |-> FALSE, loading |-> FALSE, called |-> FALSE,
                       ran |-> FALSE, stored |-> FALSE, load |-> "none"]
    IN  IF TooLarge(image_data)
        THEN [same EXCEPT !.status = 400, !.steps = <<"read", "size">>]
        ELSE IF looked.raised
        THEN [same EXCEPT !.status = UnexpectedErrorStatus,
                  !.steps = <<"read", "size", "fingerprint", "lookup">>,
                  !.cache = looked.cache, !.looked = TRUE]
        ELSE IF looked.found
        THEN [same EXCEPT !.status = 200,
                  !.response = HitResponse(looked.result),
                  !.steps = <<"read", "size", "fingerprint", "lookup", "hit">>,
                  !.cache = WriteBack(looked.cache, cache_key,
                                      HitResponse(looked.result)),
                  !.looked = TRUE]
        ELSE IF ~Decodes(image_data)
        THEN [same EXCEPT !.status = DecodeErrorStatus,
                  !.steps = <<"read", "size", "fingerprint", "lookup", "decode">>,
                  !.cache = looked.cache, !.looked = TRUE]
        ELSE IF ZeroDimensions(image)
        THEN [same EXCEPT !.status = 400,
                  !.steps = <<"read", "size", "fingerprint", "lookup", "decode",
                              "dimensions">>,
                  !.cache = looked.cache, !.looked = TRUE]
        ELSE IF ~clf.ok
        THEN [same EXCEPT !.status = UnexpectedErrorStatus,
                  !.steps = <<"read", "size", "fingerprint", "lookup", "decode",
                              "dimensions", "get_classifier">>,
                  !.cache = looked.cache, !.looked = TRUE, !.loading = TRUE,
                  !.load = LoadOutcome(clf)]
        ELSE IF ~run.ok
        THEN [same EXCEPT !.status = UnexpectedErrorStatus,
                  !.steps = <<"read", "size", "fingerprint", "lookup", "decode",
                              "dimensions", "get_classifier", "classify">>,
                  !.cache = looked.cache, !.classifier = clf.classifier,
                  !.load = LoadOutcome(clf),
                  !.looked = TRUE, !.loading = (classifier = "none"), !.called = TRUE]
        ELSE IF saved.raised
        THEN [same EXCEPT !.status = UnexpectedErrorStatus,
                  !.steps = <<"read", "size", "fingerprint", "lookup", "decode",
                              "dimensions", "get_classifier", "classify", "store">>,
                  !.cache = saved.cache, !.classifier = clf.classifier,
                  !.load = LoadOutcome(clf),
                  !.looked = TRUE, !.loading = (classifier = "none"), !.called = TRUE,
                  !.ran = TRUE, !.stored = saved.stored]
        ELSE [same EXCEPT !.status = 200, !.response = response,
                  !.steps = <<"read", "size", "fingerprint", "lookup", "decode",
                              "dimensions", "get_classifier", "classify", "store">>,
                  !.cache = saved.cache, !.classifier = clf.classifier,
                  !.load = LoadOutcome(clf),
                  !.looked = TRUE, !.loading = (classifier = "none"), !.called = TRUE,
                  !.ran = TRUE, !.stored = saved.stored]

\* History: stores are numbered in the order they are made
NextStoreNumber ==
    IF inserted = {} THEN 1
    ELSE 1 + (CHOOSE m \in {e.n : e \in inserted} : \A e \in inserted : e.n <= m)

\* History kept beside the handler: the stores that still stand
InsertedAfter(q, out) ==
    IF ~out.stored THEN inserted
    ELSE LET evicted == Keys(Expire(cache, now)) \ Keys(out.cache)
         IN  {e \in inserted :
                 /\ ~(e.b = q.payload /\ e.k = q.top_k)
                 /\ image_cache_key(e.b, e.k) \notin evicted
                 /\ now - e.t0 < ttl}
             \cup {[b |-> q.payload, k |-> q.top_k, t0 |-> now,
                    result |-> out.response, n |-> NextStoreNumber]}

\* History: no store has been made since the cache was empty
NoFill == [ok |-> TRUE, keys |-> <<>>, t0 |-> -1]

\* History kept beside the handler: the stores made since the cache was empty,
\* as long as they are stores of distinct keys, all within the TTL of the
\* first, with no hit in between
FillAfter(q, out) ==
    LET key == [b |-> q.payload, k |-> q.top_k]
    IN  IF out.stored
        THEN IF fill.keys = <<>> THEN [ok |-> fill.ok, keys |-> <<key>>, t0 |-> now]
             ELSE IF \/ \E i \in 1..Len(fill.keys) : fill.keys[i] = key
                     \/ now - fill.t0 >= ttl
                     \/ Len(fill.keys) > maxsize
             THEN [fill EXCEPT !.ok = FALSE]
             ELSE [fill EXCEPT !.keys = Append(fill.keys, key)]
        ELSE IF out.cache # cache THEN [fill EXCEPT !.ok = FALSE]
        ELSE fill

\* The run of the classifier that raises
FailedRun == [ok |-> FALSE, ms |-> 0]

\* Lines 105-134: the payload has arrived; the handler runs without yielding
\* up to its response or, on a miss with a decodable image, into
\* clf.predict, which it calls on the event loop.
classify_image_begin(r, loadOk, getFault) ==
    /\ Quiet
    /\ ~BatchRunning
    /\ ~Classifying
    /\ req[r].pc = "reading"
    /\ req[r].kind = "classify"
    /\ LET q   == req[r]
           out == classify_image_body(q, FailedRun, loadOk, getFault, FALSE)
           snap == [q EXCEPT
                      !.age = Age(q.payload, q.top_k),
                      !.known = Standing(q.payload, q.top_k) # {},
                      !.expected =
                          IF Standing(q.payload, q.top_k) # {}
                          THEN (CHOOSE e \in Standing(q.payload, q.top_k) : TRUE).result
                          ELSE NoBody,
                      !.getFault = getFault /\ out.looked,
                      !.setFault = FALSE,
                      !.runOk = TRUE,
                      !.loadOk = loadOk \/ ~out.loading,
                      !.retried = Retried(out.load)]
       IN  /\ req' = [req EXCEPT ![r] =
                IF out.called
                THEN [snap EXCEPT !.pc = "classifying", !.steps = q.steps \o out.steps]
                ELSE Finished(snap, out.status, out.response, out.steps)]
           /\ cache' = out.cache
           /\ classifier' = out.classifier
           /\ loads' = LoadsAfter(out.load)
           /\ inserted' = InsertedAfter(q, out)
           /\ fill' = FillAfter(q, out)
    /\ UNCHANGED <<process, lb, now, served, kin, kout, layer, lres, lhist, lfill, lock, thr>>

\* Lines 134-167: clf.predict returns or raises; the handler goes on, without
\* yielding, to the store and the response.  Nothing else has run since the
\* lookup, so the handler's path up to the call is the one it took.
classify_image_finish(r, run, setFault) ==
    /\ req[r].pc = "classifying"
    /\ LET q   == req[r]
           out == classify_image_body(q, run, TRUE, q.getFault, setFault)
           snap == [q EXCEPT !.steps = <<q.steps[1]>>,
                             !.setFault = setFault /\ out.ran,
                             !.runOk = run.ok]
       IN  /\ req' = [req EXCEPT ![r] = Finished(snap, out.status, out.response, out.steps)]
           /\ cache' = out.cache
           /\ classifier' = out.classifier
           /\ loads' = LoadsAfter(out.load)
           /\ inserted' = InsertedAfter(q, out)
           /\ fill' = FillAfter(q, out)
    /\ UNCHANGED <<process, lb, now, served, kin, kout, layer, lres, lhist, lfill, lock, thr>>

\* Line 105: the handler's task is cancelled while it waits for the payload
\* (the client has gone, the server stops).  CancelledError is no Exception:
\* neither except clause catches it and no response is made.
classify_image_cancel(r) ==
    /\ Quiet
    /\ ~BatchRunning
    /\ ~Classifying
    /\ req[r].pc = "reading"
    /\ req[r].kind = "classify"
    /\ req' = [req EXCEPT ![r] =
            [req[r] EXCEPT !.pc = "cancelled", !.steps = req[r].steps \o <<"cancelled">>]]
    /\ UNCHANGED <<process, lb, loads, now, cache, classifier, served, inserted, kin, kout,
                   layer, lres, lhist, fill, lfill, lock, thr>>

\* The handler with the cache working as the library does
classify_image(r) ==
    \/ \E loadOk \in BOOLEAN : classify_image_begin(r, loadOk, FALSE)
    \/ \E run \in Runs : classify_image_finish(r, run, FALSE)

-----------------------------------------------------------------------------
\* POST /classify-batch (classify_batch)

MaxBatch == 10

File(ct, payload) == [ct |-> ct, payload |-> payload]

Jpeg(payload) == File(<<"image/", "jpeg">>, payload)
Text(payload) == File(<<"text/", "plain">>, payload)

Repeat(f, n) == [i \in 1..n |-> f]

\* The batches the first client sends
BatchInputs ==
    {[files |-> <<Jpeg(ImgA), Jpeg(NotImg), Jpeg(BigImg)>>, top_k |-> 1],
     [files |-> <<Text(ImgA), Jpeg(ZeroImg), Jpeg(OverImg)>>, top_k |-> 10],
     [files |-> <<Jpeg(ImgA)>> \o Repeat(Text(NotImg), MaxBatch - 1), top_k |-> 1],
     [files |-> <<Jpeg(ImgA)>> \o Repeat(Text(NotImg), MaxBatch), top_k |-> 1],
     [files |-> <<Jpeg(ImgA)>>, top_k |-> 0],
     [files |-> <<Jpeg(ImgA)>>, top_k |-> 11]}

ItemError(i, message) ==
    [file_index |-> i, has_error |-> TRUE, error |-> message,
     has_predictions |-> FALSE, predictions |-> <<>>]

ItemSuccess(i, predictions) ==
    [file_index |-> i, has_error |-> FALSE, error |-> "",
     has_predictions |-> TRUE,
     predictions |-> [j \in 1..Len(predictions) |-> PredictionResponse(predictions[j])]]

\* Mutant: the loop looks the file up in the result cache before classifying
classify_batch_file_cached(i, file, top_k, run) ==
    LET image == Decode(file.payload)
        cache_key == image_cache_key(file.payload, top_k)
    IN  IF ~ContentTypeOk(file.ct)
        THEN [entry |-> ItemError(i, "File must be an image"),
              step |-> "item_content_type", ms |-> 0]
        ELSE IF TooLarge(file.payload)
        THEN [entry |-> ItemError(i, "Image too large (max 10MB)"),
              step |-> "item_size", ms |-> 0]
        ELSE IF CacheContains(cache, cache_key, now)
        THEN [entry |-> ItemSuccess(i, Predict(Thumbnail(image), top_k)),
              step |-> "item_hit", ms |-> 0]
        ELSE IF ~Decodes(file.payload)
        THEN [entry |-> ItemError(i, "cannot identify image file"),
              step |-> "item_decode", ms |-> 0]
        ELSE IF ZeroDimensions(image)
        THEN [entry |-> ItemError(i, "Invalid image dimensions"),
              step |-> "item_dimensions", ms |-> 0]
        ELSE IF ~run.ok
        THEN [entry |-> ItemError(i, "classifier failed"),
              step |-> "item_classify", ms |-> 0]
        ELSE [entry |-> ItemSuccess(i, Predict(Thumbnail(image), top_k)),
              step |-> "item_classify", ms |-> run.ms]

\* One iteration of the loop over the files (lines 197-260): the entry it
\* appends, the step it took and the time the classifier spent
classify_batch_file(i, file, top_k, run) ==
    LET image == Decode(file.payload)
    IN  IF ~ContentTypeOk(file.ct)
        THEN [entry |-> ItemError(i, "File must be an image"),
              step |-> "item_content_type", ms |-> 0]
        ELSE IF TooLarge(file.payload)
        THEN [entry |-> ItemError(i, "Image too large (max 10MB)"),
              step |-> "item_size", ms |-> 0]
        ELSE IF ~Decodes(file.payload)
        THEN [entry |-> ItemError(i, "cannot identify image file"),
              step |-> "item_decode", ms |-> 0]
        ELSE IF ZeroDimensions(image)
        THEN [entry |-> ItemError(i, "Invalid image dimensions"),
              step |-> "item_dimensions", ms |-> 0]
        ELSE IF ~run.ok
        THEN [entry |-> ItemError(i, "classifier failed"),
              step |-> "item_classify", ms |-> 0]
        ELSE [entry |-> ItemSuccess(i, Predict(Thumbnail(image), top_k)),
              step |-> "item_classify", ms |-> run.ms]

\* Mutant: the batch size limit refuses a batch of exactly the maximum
classify_batch_enter_inclusive(r, files, top_k, loadOk) ==
    /\ process = "service"
    /\ Quiet
    /\ ~Classifying
    /\ \A other \in Requests : req[other].pc = "idle"
    /\ served < MaxRequests
    /\ served < Cardinality(Requests)
    /\ served' = served + 1
    /\ LET q == [IdleRequest EXCEPT !.kind = "batch", !.files = files, !.top_k = top_k]
           clf == get_classifier(classifier, loadOk)
       IN  IF ~TopKValid(top_k)
           THEN /\ req' = [req EXCEPT ![r] = Finished(q, 422, NoBody, <<"top_k_rejected">>)]
                /\ UNCHANGED <<classifier, loads>>
           ELSE IF Len(files) >= MaxBatch
           THEN /\ req' = [req EXCEPT ![r] = Finished(q, 400, NoBody, <<"batch_size">>)]
                /\ UNCHANGED <<classifier, loads>>
           ELSE IF ~clf.ok
           THEN /\ req' = [req EXCEPT ![r] =
                            Finished(q, UnexpectedErrorStatus, NoBody,
                                     <<"batch_size", "get_classifier">>)]
                /\ UNCHANGED classifier
                /\ loads' = LoadsAfter(LoadOutcome(clf))
           ELSE /\ req' = [req EXCEPT ![r] =
                            [q EXCEPT !.pc = "batch",
                                      !.steps = <<"batch_size", "get_classifier">>,
                                      !.retried = Retried(LoadOutcome(clf))]]
                /\ classifier' = clf.classifier
                /\ loads' = LoadsAfter(LoadOutcome(clf))
    /\ UNCHANGED <<process, lb, now, cache, inserted, kin, kout, layer, lres, lhist,
                   fill, lfill, lock, thr>>

\* Lines 170-194: the framework's validation of top_k, the batch size limit
\* and the classifier instance.  The client sends a batch as one of its first
\* requests, while no other request is in the service.
classify_batch_enter(r, files, top_k, loadOk) ==
    /\ process = "service"
    /\ Quiet
    /\ ~Classifying
    /\ \A other \in Requests : req[other].pc = "idle"
    /\ served < MaxRequests
    /\ served < Cardinality(Requests)
    /\ served' = served + 1
    /\ LET q == [IdleRequest EXCEPT !.kind = "batch", !.files = files, !.top_k = top_k]
           clf == get_classifier(classifier, loadOk)
       IN  IF ~TopKValid(top_k)
           THEN /\ req' = [req EXCEPT ![r] = Finished(q, 422, NoBody, <<"top_k_rejected">>)]
                /\ UNCHANGED <<classifier, loads>>
           ELSE IF Len(files) > MaxBatch
           THEN /\ req' = [req EXCEPT ![r] = Finished(q, 400, NoBody, <<"batch_size">>)]
                /\ UNCHANGED <<classifier, loads>>
           ELSE IF ~clf.ok
           THEN /\ req' = [req EXCEPT ![r] =
                            Finished(q, UnexpectedErrorStatus, NoBody,
                                     <<"batch_size", "get_classifier">>)]
                /\ UNCHANGED classifier
                /\ loads' = LoadsAfter(LoadOutcome(clf))
           ELSE /\ req' = [req EXCEPT ![r] =
                            [q EXCEPT !.pc = "batch",
                                      !.steps = <<"batch_size", "get_classifier">>,
                                      !.retried = Retried(LoadOutcome(clf))]]
                /\ classifier' = clf.classifier
                /\ loads' = LoadsAfter(LoadOutcome(clf))
    /\ UNCHANGED <<process, lb, now, cache, inserted, kin, kout, layer, lres, lhist, fill, lfill, lock, thr>>

\* Mutant: the error of one file is raised out of the loop and ends the batch
classify_batch_item_aborts(r, run) ==
    /\ Quiet
    /\ req[r].pc = "batch"
    /\ Len(req[r].results) < Len(req[r].files)
    /\ LET q == req[r]
           i == Len(q.results)
           out == classify_batch_file(i, q.files[i + 1], q.top_k, run)
       IN  req' = [req EXCEPT ![r] =
                IF out.entry.has_error
                THEN Finished(q, UnexpectedErrorStatus, NoBody, <<out.step>>)
                ELSE [q EXCEPT !.results = Append(q.results, out.entry),
                               !.steps = Append(q.steps, out.step),
                               !.batch_ms = q.batch_ms + out.ms]]
    /\ UNCHANGED <<process, lb, loads, now, cache, classifier, served, inserted, kin, kout,
                   layer, lres, lhist, fill, lfill, lock, thr>>

\* Lines 197-260, one file
classify_batch_item(r, run) ==
    /\ Quiet
    /\ req[r].pc = "batch"
    /\ Len(req[r].results) < Len(req[r].files)
    /\ LET q == req[r]
           i == Len(q.results)
           out == classify_batch_file(i, q.files[i + 1], q.top_k, run)
       IN  req' = [req EXCEPT ![r] =
                [q EXCEPT !.results = Append(q.results, out.entry),
                          !.steps = Append(q.steps, out.step),
                          !.batch_ms = q.batch_ms + out.ms]]
    /\ UNCHANGED <<process, lb, loads, now, cache, classifier, served, inserted, kin, kout, layer, lres, lhist, fill, lfill, lock, thr>>

\* Mutant: the response counts every entry as a success
classify_batch_return_counts_all(r) ==
    /\ Quiet
    /\ req[r].pc = "batch"
    /\ Len(req[r].results) = Len(req[r].files)
    /\ LET q == req[r]
       IN  req' = [req EXCEPT ![r] =
                [q EXCEPT !.pc = "done", !.status = 200,
                          !.total_files = Len(q.files),
                          !.successful_files = Len(q.results)]]
    /\ UNCHANGED <<process, lb, loads, now, cache, classifier, served, inserted, kin, kout,
                   layer, lres, lhist, fill, lfill, lock, thr>>

\* Lines 262-270: the response
classify_batch_return(r) ==
    /\ Quiet
    /\ req[r].pc = "batch"
    /\ Len(req[r].results) = Len(req[r].files)
    /\ LET q == req[r]
       IN  req' = [req EXCEPT ![r] =
                [q EXCEPT !.pc = "done", !.status = 200,
                          !.total_files = Len(q.files),
                          !.successful_files =
                              Cardinality({j \in 1..Len(q.results) :
                                              ~q.results[j].has_error})]]
    /\ UNCHANGED <<process, lb, loads, now, cache, classifier, served, inserted, kin, kout, layer, lres, lhist, fill, lfill, lock, thr>>

-----------------------------------------------------------------------------
\* GET /health (health_check) and GET /model/info (get_model_info).  Neither
\* handler awaits anything: each is one step of the event loop.

\* Mutant: the health check lets the exception through
health_check_raises(r, loadOk, infoOk) ==
    /\ process = "service"
    /\ Quiet
    /\ ~BatchRunning
    /\ ~Classifying
    /\ req[r].pc = "idle"
    /\ served < MaxRequests
    /\ served' = served + 1
    /\ LET clf == get_classifier(classifier, loadOk)
           q == [IdleRequest EXCEPT !.kind = "health",
                                    !.retried = Retried(LoadOutcome(clf))]
       IN  /\ req' = [req EXCEPT ![r] =
                IF clf.ok /\ infoOk
                THEN [Finished(q, 200, NoBody, <<"get_classifier", "get_model_info">>)
                         EXCEPT !.health = HealthResponse("healthy", TRUE, <<ModelInfo>>),
                                !.loadOk = TRUE, !.infoOk = TRUE]
                ELSE [Finished(q, UnexpectedErrorStatus, NoBody, <<"get_classifier">>)
                         EXCEPT !.loadOk = clf.ok, !.infoOk = FALSE]]
           /\ classifier' = clf.classifier
           /\ loads' = LoadsAfter(LoadOutcome(clf))
    /\ UNCHANGED <<process, lb, now, cache, inserted, kin, kout, layer, lres, lhist,
                   fill, lfill, lock, thr>>

\* Lines 56-72: the classifier and its info inside try; any exception is
\* answered with the unhealthy body
health_check(r, loadOk, infoOk) ==
    /\ process = "service"
    /\ Quiet
    /\ ~BatchRunning
    /\ ~Classifying
    /\ req[r].pc = "idle"
    /\ served < MaxRequests
    /\ served' = served + 1
    /\ LET clf == get_classifier(classifier, loadOk)
           q == [IdleRequest EXCEPT !.kind = "health",
                                    !.retried = Retried(LoadOutcome(clf))]
       IN  /\ req' = [req EXCEPT ![r] =
                IF ~clf.ok
                THEN [Finished(q, 200, NoBody, <<"get_classifier">>)
                         EXCEPT !.health = HealthResponse("unhealthy", FALSE, Null),
                                !.loadOk = FALSE, !.infoOk = FALSE]
                ELSE IF ~infoOk
                THEN [Finished(q, 200, NoBody, <<"get_classifier", "get_model_info">>)
                         EXCEPT !.health = HealthResponse("unhealthy", FALSE, Null),
                                !.loadOk = TRUE, !.infoOk = FALSE]
                ELSE [Finished(q, 200, NoBody, <<"get_classifier", "get_model_info">>)
                         EXCEPT !.health = HealthResponse("healthy", TRUE, <<ModelInfo>>),
                                !.loadOk = TRUE, !.infoOk = TRUE]]
           /\ classifier' = clf.classifier
           /\ loads' = LoadsAfter(LoadOutcome(clf))
    /\ UNCHANGED <<process, lb, now, cache, inserted, kin, kout, layer, lres, lhist,
                   fill, lfill, lock, thr>>

\* Lines 281-293: the classifier's info, or 500 when obtaining it raises
get_model_info(r, loadOk, infoOk) ==
    /\ process = "service"
    /\ Quiet
    /\ ~BatchRunning
    /\ ~Classifying
    /\ req[r].pc = "idle"
    /\ served < MaxRequests
    /\ served' = served + 1
    /\ LET clf == get_classifier(classifier, loadOk)
           q == [IdleRequest EXCEPT !.kind = "model_info",
                                    !.retried = Retried(LoadOutcome(clf))]
       IN  /\ req' = [req EXCEPT ![r] =
                IF ~clf.ok
                THEN [Finished(q, UnexpectedErrorStatus, NoBody, <<"get_classifier">>)
                         EXCEPT !.loadOk = FALSE, !.infoOk = FALSE]
                ELSE IF ~infoOk
                THEN [Finished(q, UnexpectedErrorStatus, NoBody,
                               <<"get_classifier", "get_model_info">>)
                         EXCEPT !.loadOk = TRUE, !.infoOk = FALSE]
                ELSE [Finished(q, 200, NoBody, <<"get_classifier", "get_model_info">>)
                         EXCEPT !.model_info = <<ModelInfo>>,
                                !.loadOk = TRUE, !.infoOk = TRUE]]
           /\ classifier' = clf.classifier
           /\ loads' = LoadsAfter(LoadOutcome(clf))
    /\ UNCHANGED <<process, lb, now, cache, inserted, kin, kout, layer, lres, lhist,
                   fill, lfill, lock, thr>>

-----------------------------------------------------------------------------
\* CachingLayer (performance/optimization.py).  self.cache is a dict: the
\* sequence of its items [key, value, timestamp] in insertion order.  Every
\* method runs under self.lock, so each is one step.

LayerKeys == {"a", "b", "c"}
LayerValues == {1, 2}

\* No operation has been made yet
NoLayerResult == [op |-> "none", key |-> "none", found |-> FALSE, value |-> 0,
                  known |-> FALSE, age |-> -1, expected |-> 0, size |-> 0, n |-> 0,
                  before |-> 0, evicted |-> <<>>]

LayerHas(c, key) == \E i \in 1..Len(c) : c[i].key = key

LayerItem(c, key) == c[CHOOSE i \in 1..Len(c) : c[i].key = key]

LayerDel(c, key) == SelectSeq(c, LAMBDA e : e.key # key)

\* time.time() - timestamp < self.ttl
LayerFresh(timestamp, t) == t - timestamp < LayerTtl

\* Mutant: the layer evicts only once it is over its capacity
LayerFullLate(c) == Len(c) > LayerMaxSize

\* len(self.cache) >= self.max_size
LayerFull(c) == Len(c) >= LayerMaxSize

\* Mutant: the victim is the entry of the largest timestamp
NewestKey(c) ==
    LET i == CHOOSE i \in 1..Len(c) :
                 /\ \A j \in 1..Len(c) : c[i].timestamp >= c[j].timestamp
                 /\ \A j \in 1..(i - 1) : c[j].timestamp # c[i].timestamp
    IN  c[i].key

\* min(self.cache.keys(), key=lambda k: self.cache[k][1]): the first key, in
\* the dict's order, among those of the smallest timestamp
OldestKey(c) ==
    LET i == CHOOSE i \in 1..Len(c) :
                 /\ \A j \in 1..Len(c) : c[i].timestamp <= c[j].timestamp
                 /\ \A j \in 1..(i - 1) : c[j].timestamp # c[i].timestamp
    IN  c[i].key

\* Mutant: the store adds an item without looking for the key
LayerPutAppends(c, key, value, t) ==
    Append(c, [key |-> key, value |-> value, timestamp |-> t])

\* self.cache[key] = (value, time.time()): a stored key keeps its place
LayerPut(c, key, value, t) ==
    IF LayerHas(c, key)
    THEN [i \in 1..Len(c) |->
             IF c[i].key = key
             THEN [key |-> key, value |-> value, timestamp |-> t] ELSE c[i]]
    ELSE Append(c, [key |-> key, value |-> value, timestamp |-> t])

\* Mutant: get answers absent for an expired entry and leaves it stored
CachingLayer_get_keeps(c, key, t) ==
    IF LayerHas(c, key) /\ LayerFresh(LayerItem(c, key).timestamp, t)
    THEN [found |-> TRUE, value |-> LayerItem(c, key).value, cache |-> c]
    ELSE [found |-> FALSE, value |-> 0, cache |-> c]

\* CachingLayer.get
CachingLayer_get(c, key, t) ==
    IF LayerHas(c, key)
    THEN IF LayerFresh(LayerItem(c, key).timestamp, t)
         THEN [found |-> TRUE, value |-> LayerItem(c, key).value, cache |-> c]
         ELSE [found |-> FALSE, value |-> 0, cache |-> LayerDel(c, key)]
    ELSE [found |-> FALSE, value |-> 0, cache |-> c]

\* CachingLayer.set
CachingLayer_set(c, key, value, t) ==
    LET room == IF LayerFull(c) /\ Len(c) > 0 THEN LayerDel(c, OldestKey(c)) ELSE c
    IN  LayerPut(room, key, value, t)

\* History: the set of each key that still stands
LayerStanding(key) == {e \in lhist : e.key = key}

\* History: the sets made since the layer was empty, as long as they are sets
\* of distinct keys, all within the TTL of the first
LayerFillAfterSet(key) ==
    IF lfill.keys = <<>> THEN [ok |-> lfill.ok, keys |-> <<key>>, t0 |-> now]
    ELSE IF \/ \E i \in 1..Len(lfill.keys) : lfill.keys[i] = key
            \/ now - lfill.t0 >= LayerTtl
            \/ Len(lfill.keys) > LayerMaxSize
    THEN [lfill EXCEPT !.ok = FALSE]
    ELSE [lfill EXCEPT !.keys = Append(lfill.keys, key)]

LayerGet(key) ==
    /\ process = "benchmark"
    /\ lres.n < MaxLayerOps
    /\ LET out == CachingLayer_get(layer, key, now)
           h == LayerStanding(key)
       IN  /\ layer' = out.cache
           /\ lres' = [op |-> "get", key |-> key, found |-> out.found,
                       value |-> out.value, known |-> h # {},
                       age |-> IF h = {} THEN -1 ELSE now - (CHOOSE e \in h : TRUE).t0,
                       expected |-> IF h = {} THEN 0 ELSE (CHOOSE e \in h : TRUE).value,
                       size |-> Len(out.cache), n |-> lres.n + 1,
                       before |-> Len(layer), evicted |-> <<>>]
           /\ lfill' = IF out.cache # layer THEN [lfill EXCEPT !.ok = FALSE] ELSE lfill
    /\ UNCHANGED <<process, lb, loads, now, cache, classifier, req, served, inserted, kin, kout, lhist, fill, lock, thr>>

LayerSet(key, value) ==
    /\ process = "benchmark"
    /\ lres.n < MaxLayerOps
    /\ LET after == CachingLayer_set(layer, key, value, now)
           gone == {layer[i].key : i \in 1..Len(layer)} \ {after[i].key : i \in 1..Len(after)}
       IN  /\ layer' = after
           /\ lhist' = {e \in lhist : e.key # key /\ e.key \notin gone}
                       \cup {[key |-> key, value |-> value, t0 |-> now]}
           /\ lres' = [op |-> "set", key |-> key, found |-> FALSE, value |-> value,
                       known |-> LayerStanding(key) # {},
                       age |-> IF LayerStanding(key) = {} THEN -1
                               ELSE now - (CHOOSE e \in LayerStanding(key) : TRUE).t0,
                       expected |-> IF LayerStanding(key) = {} THEN 0
                                    ELSE (CHOOSE e \in LayerStanding(key) : TRUE).value,
                       size |-> Len(after), n |-> lres.n + 1, before |-> Len(layer),
                       evicted |-> SelectSeq(layer, LAMBDA e : e.key \in gone)]
    /\ lfill' = LayerFillAfterSet(key)
    /\ UNCHANGED <<process, lb, loads, now, cache, classifier, req, served, inserted, kin, kout, fill, lock, thr>>

\* CachingLayer.clear
LayerClear ==
    /\ process = "benchmark"
    /\ lres.n < MaxLayerOps
    /\ layer # <<>>
    /\ layer' = <<>>
    /\ lhist' = {}
    /\ lres' = [NoLayerResult EXCEPT !.op = "clear", !.n = lres.n + 1]
    /\ lfill' = NoFill
    /\ UNCHANGED <<process, lb, loads, now, cache, classifier, req, served, inserted, kin, kout, fill, lock, thr>>

\* CachingLayer.size
LayerSize ==
    /\ process = "benchmark"
    /\ lres.n < MaxLayerOps
    /\ lres' = [NoLayerResult EXCEPT !.op = "size", !.size = Len(layer), !.n = lres.n + 1]
    /\ UNCHANGED <<process, lb, loads, now, cache, classifier, req, served, inserted, kin, kout,
                   layer, lhist, fill, lfill, lock, thr>>

-----------------------------------------------------------------------------
\* CachingLayer called from several threads.  Each method is `with self.lock:`
\* around its body; the body is taken statement by statement.

ThreadOps == {"get", "set", "clear", "size"}

IdleThread == [pc |-> "idle", op |-> "none", key |-> "none", value |-> 0,
               oldest_key |-> "none", error |-> FALSE, result |-> 0, removed |-> 0]

\* Each thread stores a value of its own
ThreadValue(t) == IF t = "t1" THEN 1 ELSE 2

\* Mutant: the body is entered without the lock
LockIgnored(l) == TRUE

\* threading.Lock.acquire succeeds when no thread holds the lock
LockFree(l) == l = "free"

\* A thread calls a method and reaches `with self.lock:`
ThreadCall(t, op, key) ==
    /\ process = "threads"
    /\ thr[t].pc = "idle"
    /\ lres.n < MaxLayerOps
    /\ lres' = [lres EXCEPT !.n = lres.n + 1]
    /\ thr' = [thr EXCEPT ![t] =
            [IdleThread EXCEPT !.pc = "waiting", !.op = op,
                               !.key = IF op \in {"get", "set"} THEN key ELSE "none",
                               !.value = IF op = "set" THEN ThreadValue(t) ELSE 0]]
    /\ UNCHANGED <<process, lb, loads, now, cache, classifier, req, served, inserted, kin, kout,
                   layer, lhist, fill, lfill, lock>>

\* self.lock.__enter__
ThreadAcquire(t) ==
    /\ thr[t].pc = "waiting"
    /\ LockFree(lock)
    /\ lock' = t
    /\ thr' = [thr EXCEPT ![t].pc =
            IF thr[t].op = "set" THEN "set_check" ELSE thr[t].op]
    /\ UNCHANGED <<process, lb, loads, now, cache, classifier, req, served, inserted, kin, kout,
                   layer, lres, lhist, fill, lfill>>

\* set: if len(self.cache) >= self.max_size
ThreadSetCheck(t) ==
    /\ thr[t].pc = "set_check"
    /\ thr' = [thr EXCEPT ![t].pc = IF LayerFull(layer) THEN "set_scan" ELSE "set_put"]
    /\ UNCHANGED <<process, lb, loads, now, cache, classifier, req, served, inserted, kin, kout,
                   layer, lres, lhist, fill, lfill, lock>>

\* set: oldest_key = min(self.cache.keys(), ...); min of nothing raises
ThreadSetScan(t) ==
    /\ thr[t].pc = "set_scan"
    /\ thr' = [thr EXCEPT ![t] =
            IF layer = <<>>
            THEN [thr[t] EXCEPT !.pc = "raised", !.error = TRUE]
            ELSE [thr[t] EXCEPT !.pc = "set_del", !.oldest_key = OldestKey(layer)]]
    /\ UNCHANGED <<process, lb, loads, now, cache, classifier, req, served, inserted, kin, kout,
                   layer, lres, lhist, fill, lfill, lock>>

\* set: del self.cache[oldest_key]; a key that is gone raises KeyError
ThreadSetDel(t) ==
    /\ thr[t].pc = "set_del"
    /\ IF LayerHas(layer, thr[t].oldest_key)
       THEN /\ layer' = LayerDel(layer, thr[t].oldest_key)
            /\ thr' = [thr EXCEPT ![t].pc = "set_put"]
       ELSE /\ layer' = layer
            /\ thr' = [thr EXCEPT ![t] = [thr[t] EXCEPT !.pc = "raised", !.error = TRUE]]
    /\ UNCHANGED <<process, lb, loads, now, cache, classifier, req, served, inserted, kin, kout,
                   lres, lhist, fill, lfill, lock>>

\* set: self.cache[key] = (value, time.time())
ThreadSetPut(t) ==
    /\ thr[t].pc = "set_put"
    /\ layer' = LayerPut(layer, thr[t].key, thr[t].value, now)
    /\ thr' = [thr EXCEPT ![t].pc = "returning"]
    /\ UNCHANGED <<process, lb, loads, now, cache, classifier, req, served, inserted, kin, kout,
                   lres, lhist, fill, lfill, lock>>

\* get: the body
ThreadGet(t) ==
    /\ thr[t].pc = "get"
    /\ LET out == CachingLayer_get(layer, thr[t].key, now)
       IN  /\ layer' = out.cache
           /\ thr' = [thr EXCEPT ![t] =
                   [thr[t] EXCEPT !.pc = "returning",
                                  !.result = IF out.found THEN out.value ELSE 0]]
    /\ UNCHANGED <<process, lb, loads, now, cache, classifier, req, served, inserted, kin, kout,
                   lres, lhist, fill, lfill, lock>>

\* Mutant: clear removes one entry and returns
ThreadClearPartial(t) ==
    /\ thr[t].pc = "clear"
    /\ layer' = IF layer = <<>> THEN layer ELSE Tail(layer)
    /\ thr' = [thr EXCEPT ![t] =
            [thr[t] EXCEPT !.pc = "returning", !.removed = Len(layer) - Len(layer')]]
    /\ UNCHANGED <<process, lb, loads, now, cache, classifier, req, served, inserted, kin, kout,
                   lres, lhist, fill, lfill, lock>>

\* clear: self.cache.clear(), one call on the dict; removed is history, the
\* number of entries the call has dropped
ThreadClear(t) ==
    /\ thr[t].pc = "clear"
    /\ layer' = <<>>
    /\ thr' = [thr EXCEPT ![t] =
            [thr[t] EXCEPT !.pc = "returning", !.removed = Len(layer)]]
    /\ UNCHANGED <<process, lb, loads, now, cache, classifier, req, served, inserted, kin, kout,
                   lres, lhist, fill, lfill, lock>>

\* size: return len(self.cache)
ThreadSize(t) ==
    /\ thr[t].pc = "size"
    /\ thr' = [thr EXCEPT ![t] = [thr[t] EXCEPT !.pc = "returning", !.result = Len(layer)]]
    /\ UNCHANGED <<process, lb, loads, now, cache, classifier, req, served, inserted, kin, kout,
                   layer, lres, lhist, fill, lfill, lock>>

\* self.lock.__exit__, on return and on an exception alike
ThreadRelease(t) ==
    /\ thr[t].pc \in {"returning", "raised"}
    /\ lock' = "free"
    /\ thr' = [thr EXCEPT ![t] = IdleThread]
    /\ UNCHANGED <<process, lb, loads, now, cache, classifier, req, served, inserted, kin, kout,
                   layer, lres, lhist, fill, lfill>>

-----------------------------------------------------------------------------
\* LoadBalancer (performance/optimization.py) called from several threads.
\* get_next_endpoint is `with self.lock:` around three statements, taken one
\* by one.

\* LoadBalancer.__init__; calls and out are history: the calls made and the
\* endpoints handed out, in the order of the calls' turns with the lock
LoadBalancer(endpoints) ==
    [endpoints |-> endpoints, current_index |-> 0, lock |-> "free",
     thr |-> [t \in Threads |-> [pc |-> "idle", endpoint |-> 0]],
     calls |-> 0, out |-> <<>>]

\* The lists of distinct endpoints the balancer is made with (an endpoint is
\* named by a number from 1; 0 is no endpoint)
EndpointLists == {[i \in 1..n |-> i] : n \in 1..MaxEndpoints}

\* A thread calls get_next_endpoint and reaches `with self.lock:`
LbCall(t) ==
    /\ process = "balancer"
    /\ lb.thr[t].pc = "idle"
    /\ lb.calls < MaxCalls
    /\ lb' = [lb EXCEPT !.thr[t].pc = "waiting", !.calls = lb.calls + 1]
    /\ UNCHANGED <<process, loads, now, cache, classifier, req, served, inserted, kin, kout,
                   layer, lres, lhist, fill, lfill, lock, thr>>

\* self.lock.__enter__
LbAcquire(t) ==
    /\ lb.thr[t].pc = "waiting"
    /\ LockFree(lb.lock)
    /\ lb' = [lb EXCEPT !.lock = t, !.thr[t].pc = "read"]
    /\ UNCHANGED <<process, loads, now, cache, classifier, req, served, inserted, kin, kout,
                   layer, lres, lhist, fill, lfill, lock, thr>>

\* endpoint = self.endpoints[self.current_index] (the list counts from 0)
LbRead(t) ==
    /\ lb.thr[t].pc = "read"
    /\ lb' = [lb EXCEPT !.thr[t].pc = "advance",
                        !.thr[t].endpoint = lb.endpoints[lb.current_index + 1]]
    /\ UNCHANGED <<process, loads, now, cache, classifier, req, served, inserted, kin, kout,
                   layer, lres, lhist, fill, lfill, lock, thr>>

\* Mutant: the index moves on by two
LbAdvanceSkips(t) ==
    /\ lb.thr[t].pc = "advance"
    /\ lb' = [lb EXCEPT !.thr[t].pc = "return",
                        !.current_index = (lb.current_index + 2) % Len(lb.endpoints)]
    /\ UNCHANGED <<process, loads, now, cache, classifier, req, served, inserted, kin, kout,
                   layer, lres, lhist, fill, lfill, lock, thr>>

\* self.current_index = (self.current_index + 1) % len(self.endpoints)
LbAdvance(t) ==
    /\ lb.thr[t].pc = "advance"
    /\ lb' = [lb EXCEPT !.thr[t].pc = "return",
                        !.current_index = (lb.current_index + 1) % Len(lb.endpoints)]
    /\ UNCHANGED <<process, loads, now, cache, classifier, req, served, inserted, kin, kout,
                   layer, lres, lhist, fill, lfill, lock, thr>>

\* return endpoint: self.lock.__exit__ and the caller has its endpoint
LbReturn(t) ==
    /\ lb.thr[t].pc = "return"
    /\ lb' = [lb EXCEPT !.lock = "free",
                        !.thr[t] = [pc |-> "idle", endpoint |-> 0],
                        !.out = Append(lb.out, [endpoint |-> lb.thr[t].endpoint,
                                                thread |-> t])]
    /\ UNCHANGED <<process, loads, now, cache, classifier, req, served, inserted, kin, kout,
                   layer, lres, lhist, fill, lfill, lock, thr>>

-----------------------------------------------------------------------------
\* The response has been sent; the slot takes the next request
Respond(r) ==
    /\ req[r].pc \in {"done", "cancelled"}
    /\ req' = [req EXCEPT ![r] = IdleRequest]
    /\ UNCHANGED <<process, lb, loads, now, cache, classifier, served, inserted,
                   kin, kout, layer, lres, lhist, fill, lfill, lock, thr>>

\* clear_cache
clear_cache ==
    /\ process = "service"
    /\ Quiet
    /\ ~BatchRunning
    /\ ~Classifying
    /\ cache # <<>>
    /\ cache' = <<>>
    /\ inserted' = {}
    /\ fill' = NoFill
    /\ UNCHANGED <<process, lb, loads, now, classifier, req, served, kin, kout, layer, lres, lhist, lfill, lock, thr>>

\* Time passes
Tick ==
    /\ Quiet
    /\ ~BatchRunning
    /\ ~Classifying
    /\ now < MaxTime
    /\ now' = now + 1
    /\ UNCHANGED <<process, lb, loads, cache, classifier, req, served, inserted,
                   kin, kout, layer, lres, lhist, fill, lfill, lock, thr>>

NoKeyInput == [b1 |-> Bytes(<<>>, 0), k1 |-> 0, b2 |-> Bytes(<<>>, 0), k2 |-> 0]
NoKeyOutput == [done |-> FALSE, key1 |-> Sha256Hex(Bytes(<<>>, 0)),
                key2 |-> Sha256Hex(Bytes(<<>>, 0))]

Init ==
    /\ process \in {"service", "benchmark"}
    /\ now = 0
    /\ cache = <<>>
    /\ classifier \in IF process = "service" THEN {"none", "loaded"} ELSE {"none"}
    /\ req = [r \in Requests |-> IdleRequest]
    /\ served = 0
    /\ inserted = {}
    /\ kin = NoKeyInput
    /\ kout = NoKeyOutput
    /\ layer = <<>>
    /\ lres = NoLayerResult
    /\ lhist = {}
    /\ fill = NoFill
    /\ lfill = NoFill
    /\ lock = "free"
    /\ thr = [t \in Threads |-> IdleThread]
    /\ lb = LoadBalancer(<<>>)
    \* lines 47-53: the module attempts the load when it is imported
    /\ loads = [constructed |-> IF classifier = "loaded" THEN 1 ELSE 0,
                failed |-> process = "service" /\ classifier = "none"]

Next ==
    \/ \E r \in Requests : \E i \in InputsOf(r) :
           classify_image_enter(r, i.ct, i.payload, i.top_k)
    \/ \E r \in Requests : classify_image(r)
    \/ \E r \in Requests : classify_image_cancel(r)
    \/ \E i \in BatchInputs, loadOk \in BOOLEAN :
           classify_batch_enter("r1", i.files, i.top_k, loadOk)
    \/ \E r \in Requests, run \in Runs : classify_batch_item(r, run)
    \/ \E r \in Requests : classify_batch_return(r)
    \/ \E r \in Requests : Respond(r)
    \/ clear_cache
    \/ \E key \in LayerKeys : LayerGet(key)
    \/ \E key \in LayerKeys, value \in LayerValues : LayerSet(key, value)
    \/ LayerClear
    \/ LayerSize
    \/ Tick

Spec == Init /\ [][Next]_vars

-----------------------------------------------------------------------------
\* The fingerprint as a function: two inputs are drawn, both keys are computed

KeyAlphabet == {"0", "1", "a"}
KeyTopKs == {-1, 0, 1, 10, 11}

RECURSIVE Strings(_)
Strings(n) ==
    IF n = 0 THEN {<<>>}
    ELSE Strings(n - 1)
         \cup {Append(w, x) : w \in {v \in Strings(n - 1) : Len(v) = n - 1},
                              x \in KeyAlphabet}

KeyInputs ==
    [b1 : {Bytes(w, 0) : w \in Strings(MaxKeyBytes)}, k1 : KeyTopKs,
     b2 : {Bytes(w, 0) : w \in Strings(MaxKeyBytes)}, k2 : KeyTopKs]

ComputeKeys ==
    /\ ~kout.done
    /\ kout' = [done |-> TRUE,
                key1 |-> image_cache_key(kin.b1, kin.k1),
                key2 |-> image_cache_key(kin.b2, kin.k2)]
    /\ UNCHANGED <<process, lb, loads, now, cache, classifier, req, served, inserted, kin,
                   layer, lres, lhist, fill, lfill, lock, thr>>

KeyInit ==
    /\ process = "service"
    /\ now = 0
    /\ cache = <<>>
    /\ classifier = "loaded"
    /\ req = [r \in Requests |-> IdleRequest]
    /\ served = 0
    /\ inserted = {}
    /\ kin \in KeyInputs
    /\ kout = NoKeyOutput
    /\ layer = <<>>
    /\ lres = NoLayerResult
    /\ lhist = {}
    /\ fill = NoFill
    /\ lfill = NoFill
    /\ lock = "free"
    /\ thr = [t \in Threads |-> IdleThread]
    /\ lb = LoadBalancer(<<>>)
    /\ loads = [constructed |-> IF classifier = "loaded" THEN 1 ELSE 0, failed |-> FALSE]

KeySpec == KeyInit /\ [][ComputeKeys]_vars

-----------------------------------------------------------------------------
\* The handler with a cache that faults on the lookup or on the store, for
\* one client that sends its requests one after the other
FaultInputs ==
    {[ct |-> <<"image/", "jpeg">>, payload |-> ImgA, top_k |-> k] : k \in {1, 10}}
    \cup {[ct |-> <<"image/", "jpeg">>, payload |-> NotImg, top_k |-> 1]}

classify_image_faulty(r) ==
    \/ \E loadOk \in BOOLEAN : classify_image_begin(r, loadOk, TRUE)
    \/ \E run \in Runs : classify_image_finish(r, run, TRUE)

NextFault ==
    \/ \E i \in FaultInputs : classify_image_enter("r1", i.ct, i.payload, i.top_k)
    \/ classify_image("r1")
    \/ classify_image_faulty("r1")
    \/ Respond("r1")
    \/ clear_cache
    \/ \E key \in LayerKeys : LayerGet(key)
    \/ \E key \in LayerKeys, value \in LayerValues : LayerSet(key, value)
    \/ LayerClear
    \/ LayerSize
    \/ Tick

FaultSpec == Init /\ [][NextFault]_vars

-----------------------------------------------------------------------------
\* Threads that share one CachingLayer

ThreadInit ==
    /\ process = "threads"
    /\ now = 0
    /\ cache = <<>>
    /\ classifier = "none"
    /\ req = [r \in Requests |-> IdleRequest]
    /\ served = 0
    /\ inserted = {}
    /\ kin = NoKeyInput
    /\ kout = NoKeyOutput
    /\ layer = <<>>
    /\ lres = NoLayerResult
    /\ lhist = {}
    /\ fill = NoFill
    /\ lfill = NoFill
    /\ lock = "free"
    /\ thr = [t \in Threads |-> IdleThread]
    /\ lb = LoadBalancer(<<>>)
    /\ loads = [constructed |-> IF classifier = "loaded" THEN 1 ELSE 0, failed |-> FALSE]

ThreadNext ==
    \/ \E t \in Threads, op \in ThreadOps, key \in LayerKeys : ThreadCall(t, op, key)
    \/ \E t \in Threads : ThreadAcquire(t)
    \/ \E t \in Threads : ThreadSetCheck(t)
    \/ \E t \in Threads : ThreadSetScan(t)
    \/ \E t \in Threads : ThreadSetDel(t)
    \/ \E t \in Threads : ThreadSetPut(t)
    \/ \E t \in Threads : ThreadGet(t)
    \/ \E t \in Threads : ThreadClear(t)
    \/ \E t \in Threads : ThreadSize(t)
    \/ \E t \in Threads : ThreadRelease(t)
    \/ Tick

ThreadSpec == ThreadInit /\ [][ThreadNext]_vars

-----------------------------------------------------------------------------
\* Threads that share one LoadBalancer

BalancerInit ==
    /\ process = "balancer"
    /\ now = 0
    /\ cache = <<>>
    /\ classifier = "none"
    /\ req = [r \in Requests |-> IdleRequest]
    /\ served = 0
    /\ inserted = {}
    /\ kin = NoKeyInput
    /\ kout = NoKeyOutput
    /\ layer = <<>>
    /\ lres = NoLayerResult
    /\ lhist = {}
    /\ fill = NoFill
    /\ lfill = NoFill
    /\ lock = "free"
    /\ thr = [t \in Threads |-> IdleThread]
    /\ loads = [constructed |-> 0, failed |-> FALSE]
    /\ lb \in {LoadBalancer(endpoints) : endpoints \in EndpointLists}

BalancerNext ==
    \/ \E t \in Threads : LbCall(t)
    \/ \E t \in Threads : LbAcquire(t)
    \/ \E t \in Threads : LbRead(t)
    \/ \E t \in Threads : LbAdvance(t)
    \/ \E t \in Threads : LbReturn(t)

BalancerSpec == BalancerInit /\ [][BalancerNext]_vars

-----------------------------------------------------------------------------
\* Both caches with their clear: the service with one client, or the threads
\* that share one CachingLayer

ClearInit ==
    \/ Init /\ process = "service"
    \/ ThreadInit

ClearNext ==
    \/ \E i \in FaultInputs : classify_image_enter("r1", i.ct, i.payload, i.top_k)
    \/ classify_image("r1")
    \/ Respond("r1")
    \/ clear_cache
    \/ ThreadNext

ClearSpec == ClearInit /\ [][ClearNext]_vars

-----------------------------------------------------------------------------
\* The four endpoints that obtain the classifier, for one client that
\* classifies and one that probes

EndpointNext ==
    \/ \E i \in FaultInputs : classify_image_enter("r1", i.ct, i.payload, i.top_k)
    \/ classify_image("r1")
    \/ classify_image_cancel("r1")
    \/ \E i \in BatchInputs, loadOk \in BOOLEAN :
           classify_batch_enter("r1", i.files, i.top_k, loadOk)
    \/ \E run \in Runs : classify_batch_item("r1", run)
    \/ classify_batch_return("r1")
    \/ \E loadOk \in BOOLEAN, infoOk \in BOOLEAN : health_check("r2", loadOk, infoOk)
    \/ \E loadOk \in BOOLEAN, infoOk \in BOOLEAN : get_model_info("r2", loadOk, infoOk)
    \/ \E r \in Requests : Respond(r)
    \/ clear_cache
    \/ Tick

EndpointSpec == Init /\ [][EndpointNext]_vars

-----------------------------------------------------------------------------
\* Properties

Range(seq) == {seq[i] : i \in 1..Len(seq)}

Done(r) == req[r].pc = "done"

DoneClassify(r) == req[r].pc = "done" /\ req[r].kind = "classify"

\* What the claims call an image content type and a top_k in range
DeclaredImage(ct) == Len(ct) > 0 /\ ct[1] = "image/"
InRange(k) == k \in 1..10

\* C1: once a request for (bytes, top_k) has been classified and stored, a
\* later request with the same bytes and top_k, made while that store stands
\* and is younger than the TTL, is served from the cache: the classifier is
\* not invoked and the reported processing time is exactly 0.
C1_RepeatServedFromCache ==
    \A r \in Requests :
        (DoneClassify(r) /\ DeclaredImage(req[r].ct) /\ InRange(req[r].top_k)
            /\ req[r].age >= 0 /\ req[r].age < ttl)
        => /\ req[r].status = 200
           /\ "hit" \in Range(req[r].steps)
           /\ "classify" \notin Range(req[r].steps)
           /\ req[r].response.processing_time_ms = 0

C1_Witness ==
    \E r \in Requests :
        /\ DoneClassify(r) /\ req[r].age >= 0 /\ req[r].age < ttl
        /\ "hit" \in Range(req[r].steps)
        /\ req[r].expected.processing_time_ms > 0

\* C2: a response served from the cache for (bytes, top_k) carries the
\* predictions and the model info of the latest classifier run for that same
\* (bytes, top_k), never those of another image or another top_k.
C2_HitReturnsOwnResult ==
    \A r \in Requests :
        (DoneClassify(r) /\ "hit" \in Range(req[r].steps))
        => /\ req[r].known
           /\ req[r].response.predictions = req[r].expected.predictions
           /\ req[r].response.model_info = req[r].expected.model_info

C2_Witness ==
    \E r \in Requests :
        /\ DoneClassify(r) /\ "hit" \in Range(req[r].steps) /\ req[r].known
        /\ \E e \in inserted : e.b # req[r].payload \/ e.k # req[r].top_k

\* C3: every 200 response of /classify holds exactly top_k predictions,
\* computed or served from the cache, whatever was requested before.
C3_ExactlyTopK ==
    \A r \in Requests :
        (DoneClassify(r) /\ req[r].status = 200)
        => Len(req[r].response.predictions) = req[r].top_k

C3_Witness ==
    \E r \in Requests :
        /\ DoneClassify(r) /\ req[r].status = 200
        /\ "hit" \in Range(req[r].steps)
        /\ Len(req[r].response.predictions) = 10
        /\ \E e \in inserted : e.b = req[r].payload /\ e.k # req[r].top_k

\* C4: image_cache_key gives equal keys for equal (bytes, top_k) and different
\* keys whenever the bytes or top_k differ, for any bytes and any integer
\* top_k, the digest being one-to-one on its input.
C4_KeyInjective ==
    kout.done =>
        ((kin.b1 = kin.b2 /\ kin.k1 = kin.k2) <=> (kout.key1 = kout.key2))

\* C5: a request declared as an image whose bytes do not decode ends with a
\* client error (4xx), never with a server error.
C5_UndecodableIsClientError ==
    \A r \in Requests :
        (DoneClassify(r) /\ DeclaredImage(req[r].ct) /\ InRange(req[r].top_k)
            /\ req[r].payload = NotImg)
        => (req[r].status >= 400 /\ req[r].status < 500)

\* C6: a request whose content type is missing or not an image type is
\* rejected with 400 at the content type check: the payload is not read, no
\* fingerprint is computed, the cache is neither consulted nor changed, and
\* the classifier is not invoked.
C6_BadContentTypeRejectedFirst ==
    [][\A r \in Requests :
          (req[r].pc # "done" /\ req'[r].pc = "done" /\ req'[r].kind = "classify"
              /\ InRange(req'[r].top_k) /\ ~DeclaredImage(req'[r].ct))
          => /\ req'[r].status = 400
             /\ req'[r].steps = <<"content_type">>
             /\ cache' = cache]_vars

C6_Witness ==
    \E r \in Requests :
        /\ DoneClassify(r) /\ req[r].status = 400
        /\ req[r].ct = NoContentType
        /\ cache # <<>>

\* C7: a payload of more than 10,000,000 bytes is rejected with a client
\* error before the fingerprint, the cache lookup, the decoding and the
\* classifier, and the cache is unchanged; a payload of exactly 10,000,000
\* bytes passes the size check.
C7_OversizeRejected ==
    [][\A r \in Requests :
          (req[r].pc # "done" /\ req'[r].pc = "done" /\ req'[r].kind = "classify"
              /\ InRange(req'[r].top_k) /\ DeclaredImage(req'[r].ct))
          => /\ BytesLen(req'[r].payload) > 10000000
                => /\ req'[r].status = 400
                   /\ req'[r].steps = <<"content_type", "read", "size">>
                   /\ cache' = cache
             /\ BytesLen(req'[r].payload) = 10000000
                => "fingerprint" \in Range(req'[r].steps)]_vars

C7_Witness ==
    \E r \in Requests :
        /\ DoneClassify(r) /\ req[r].status = 400
        /\ BytesLen(req[r].payload) = 10000001
        /\ \E e \in inserted : BytesLen(e.b) = 10000000

\* C8: a request to /classify or /classify-batch whose top_k is outside 1..10
\* is rejected by validation (422) before anything else: no cache lookup or
\* store, no classifier invocation, and the cache is unchanged.
C8_TopKOutOfRangeRejected ==
    [][\A r \in Requests :
          (req[r].pc # "done" /\ req'[r].pc = "done" /\ ~InRange(req'[r].top_k))
          => /\ req'[r].status = 422
             /\ req'[r].steps = <<"top_k_rejected">>
             /\ req'[r].results = <<>>
             /\ cache' = cache]_vars

C8_Witness ==
    \E r \in Requests :
        /\ Done(r) /\ req[r].kind = "batch" /\ req[r].status = 422
        /\ req[r].top_k = 11
        /\ cache # <<>>

\* C9: a fault of the cache never fails a /classify request: a lookup that
\* faults is handled as a miss, a store that faults is ignored, and when the
\* image decodes and the classifier loads and runs, the response is 200 with
\* the computed result.
C9_CacheFaultNeverFails ==
    \A r \in Requests :
        (DoneClassify(r) /\ (req[r].getFault \/ req[r].setFault))
        => /\ req[r].getFault
              => ("hit" \notin Range(req[r].steps) /\ "decode" \in Range(req[r].steps))
           /\ (req[r].payload \in {ImgA, BigImg} /\ req[r].runOk /\ req[r].loadOk)
              => /\ req[r].status = 200
                 /\ "classify" \in Range(req[r].steps)
                 /\ Len(req[r].response.predictions) = req[r].top_k
                 /\ req[r].response.processing_time_ms > 0

C9_Witness ==
    \E r \in Requests :
        /\ DoneClassify(r) /\ req[r].getFault /\ req[r].setFault
        /\ req[r].known /\ req[r].age < ttl
        /\ req[r].status = 200

\* C10: while a store stands (not overwritten, evicted or cleared), a lookup
\* of its key finds the stored value as long as its age is less than the TTL
\* and finds nothing once its age has reached the TTL, in the service's cache
\* and in CachingLayer.
C10_TtlBoundary ==
    /\ \A r \in Requests :
          (DoneClassify(r) /\ DeclaredImage(req[r].ct) /\ InRange(req[r].top_k)
              /\ req[r].age >= 0)
          => /\ ("hit" \in Range(req[r].steps)) <=> (req[r].age < ttl)
             /\ ("hit" \in Range(req[r].steps))
                => req[r].response.predictions = req[r].expected.predictions
    /\ (lres.op = "get" /\ lres.known)
          => /\ lres.found <=> (lres.age < LayerTtl)
             /\ lres.found => lres.value = lres.expected

C10_Witness ==
    /\ lres.op = "get" /\ lres.known
    /\ ~lres.found
    /\ lres.age = LayerTtl

\* C11: neither cache ever holds more than its capacity, and storing
\* capacity + 1 distinct keys into an empty cache within the TTL leaves exactly
\* capacity entries, the first stored key being the one that is gone; for the
\* service's result cache and for CachingLayer.
C11_CapacityBound ==
    /\ Len(cache) <= maxsize
    /\ get_cache_stats(cache, now).cache_size <= maxsize
    /\ Len(layer) <= LayerMaxSize
    /\ (fill.ok /\ Len(fill.keys) = maxsize + 1 /\ now - fill.t0 < ttl)
          => /\ get_cache_stats(cache, now).cache_size = maxsize
             /\ \A i \in 1..Len(fill.keys) :
                    CacheContains(cache, image_cache_key(fill.keys[i].b, fill.keys[i].k), now)
                        <=> (i > 1)
    /\ (lfill.ok /\ Len(lfill.keys) = LayerMaxSize + 1 /\ now - lfill.t0 < LayerTtl)
          => /\ Len(layer) = LayerMaxSize
             /\ \A i \in 1..Len(lfill.keys) : LayerHas(layer, lfill.keys[i]) <=> (i > 1)

C11_Witness ==
    /\ fill.ok /\ Len(fill.keys) = maxsize + 1 /\ now - fill.t0 < ttl
    /\ Len(cache) = maxsize

\* History: the standing stores that have not expired, and the earliest of them
LiveInserted == {e \in inserted : now - e.t0 < ttl}

EarliestInserted == CHOOSE e \in LiveInserted : \A o \in LiveInserted : e.n <= o.n

\* C12: when the result cache is full of live entries and /classify stores a
\* result under a new key, the entry that goes is the live entry stored
\* earliest, however recently it was returned by a hit; every other live entry
\* stays.
C12_EvictsEarliestInserted ==
    [][\A r \in Requests :
          (/\ req[r].pc # "done" /\ req'[r].pc = "done" /\ req'[r].kind = "classify"
           /\ req'[r].status = 200 /\ "store" \in Range(req'[r].steps)
           /\ Cardinality(LiveInserted) = maxsize
           /\ \A e \in LiveInserted : ~(e.b = req'[r].payload /\ e.k = req'[r].top_k))
          => \A e \in LiveInserted :
                 CacheContains(cache', image_cache_key(e.b, e.k), now)
                     <=> (e # EarliestInserted)]_vars

\* C13: storing a key again with the same value while its first store stands
\* and is within the TTL is an overwrite: a lookup then returns that value and
\* the key is held once, the size not growing; for the service's result cache
\* and for CachingLayer.
C13_PutTwiceIsOverwrite ==
    /\ \A r \in Requests :
          (/\ DoneClassify(r) /\ req[r].status = 200 /\ "store" \in Range(req[r].steps)
           /\ ~req[r].setFault
           /\ req[r].known /\ req[r].age < ttl /\ req[r].expected = req[r].response)
          => LET key == image_cache_key(req[r].payload, req[r].top_k)
             IN  /\ Cardinality({i \in 1..Len(cache) : cache[i].key = key}) = 1
                 /\ get_cached_result(cache, key, now, FALSE).found
                 /\ get_cached_result(cache, key, now, FALSE).result = req[r].response
                 /\ get_cache_stats(cache, now).cache_size = Cardinality(LiveInserted)
    /\ (/\ lres.op = "set" /\ lres.known /\ lres.age < LayerTtl
        /\ lres.expected = lres.value
        /\ \A e \in LayerStanding(lres.key) : now - e.t0 < LayerTtl)
          => /\ Cardinality({i \in 1..Len(layer) : layer[i].key = lres.key}) = 1
             /\ CachingLayer_get(layer, lres.key, now).found
             /\ CachingLayer_get(layer, lres.key, now).value = lres.value
             /\ lres.size <= lres.before
             /\ lres.size = Cardinality({layer[i].key : i \in 1..Len(layer)})

C13_Witness ==
    \E r \in Requests :
        /\ DoneClassify(r) /\ req[r].status = 200 /\ "store" \in Range(req[r].steps)
        /\ ~req[r].setFault
        /\ req[r].known /\ req[r].age < ttl /\ req[r].expected = req[r].response
        /\ Len(cache) = maxsize

\* C14: a value in the result cache is never modified after its store: every
\* field of the entry (predictions, model_info, processing_time_ms) equals
\* what was stored, also after hits.
C14_StoredValueImmutable ==
    \A e \in inserted : \A i \in 1..Len(cache) :
        cache[i].key = image_cache_key(e.b, e.k) => cache[i].value = e.result

\* C16: while one request is inside the classifier, another request's cheap
\* operations can run to completion without waiting for it: a request whose
\* result is in the cache can take its hit, and a request that validation
\* rejects can be rejected.
C16_CheapOperationsNotBlocked ==
    \A r, r2 \in Requests :
        (r # r2 /\ req[r].pc = "classifying")
        => /\ (/\ req[r2].pc = "reading"
               /\ CacheContains(cache, image_cache_key(req[r2].payload, req[r2].top_k), now))
              => ENABLED classify_image(r2)
           /\ (req[r2].pc = "idle" /\ served < MaxRequests)
              => ENABLED classify_image_enter(r2, NoContentType, ImgA, 1)

\* C17: of two requests with the same bytes and top_k that are in the service
\* together while the key is absent, the second may miss too and invoke the
\* classifier while the first is still inside it (both then store, and the
\* later store is the one the cache keeps).
C17_BothMayMiss ==
    \A r, r2 \in Requests :
        (/\ r # r2 /\ req[r].pc = "classifying" /\ req[r2].pc = "reading"
         /\ req[r2].payload = req[r].payload /\ req[r2].top_k = req[r].top_k
         /\ ~CacheContains(cache, image_cache_key(req[r2].payload, req[r2].top_k), now))
        => ENABLED (\E loadOk \in BOOLEAN : classify_image_begin(r2, loadOk, FALSE))

\* A thread is inside the body of a CachingLayer method
InBody(t) == thr[t].pc \notin {"idle", "waiting"}

\* C15: the bodies of CachingLayer's get, set (with its eviction scan), clear
\* and size never overlap, whatever the interleaving of the threads: at most
\* one thread is inside a body, and it holds the lock; no eviction removes an
\* entry that is already gone, a set that has stored its entry still finds it
\* there when it returns, and the layer never holds more than max_size entries.
C15_LayerMutualExclusion ==
    /\ \A t, u \in Threads : (InBody(t) /\ InBody(u)) => t = u
    /\ \A t \in Threads : InBody(t) => lock = t
    /\ \A t \in Threads : ~thr[t].error
    /\ \A t \in Threads :
          (thr[t].pc = "returning" /\ thr[t].op = "set")
          => /\ LayerHas(layer, thr[t].key)
             /\ LayerItem(layer, thr[t].key).value = thr[t].value
    /\ Len(layer) <= LayerMaxSize

C15_Witness ==
    \E t, u \in Threads :
        /\ thr[t].pc = "set_del"
        /\ thr[u].pc = "waiting" /\ thr[u].op = "set"
        /\ thr[u].key \notin {layer[i].key : i \in 1..Len(layer)}

\* A step ends request r without a result: an error response, or cancellation
EndsInError(r) ==
    /\ req'[r].kind = "classify"
    /\ \/ req[r].pc # "done" /\ req'[r].pc = "done" /\ req'[r].status # 200
       \/ req[r].pc # "cancelled" /\ req'[r].pc = "cancelled"

\* A step ends request r with the result of a classification it has stored
EndsStored(r) ==
    /\ req[r].pc = "classifying" /\ req'[r].pc = "done"
    /\ req'[r].status = 200
    /\ "store" \in Range(req'[r].steps)

\* C18: a /classify request that ends in an error (validation, decoding,
\* dimensions, classifier load or run) or is cancelled leaves the result cache
\* exactly as it was: no step of it up to and including its end changes the
\* cache, and an entry appears in the cache only in the step that ends a
\* request with a successful classification after a miss.
C18_ErrorLeavesCacheUnchanged ==
    [][/\ \A r \in Requests : EndsInError(r) => cache' = cache
       /\ \A r \in Requests :
             (req[r].pc # "classifying" /\ req'[r].pc = "classifying") => cache' = cache
       /\ (\E i \in 1..Len(cache') : \A j \in 1..Len(cache) :
               cache'[i].key # cache[j].key \/ cache'[i].expires # cache[j].expires)
             => \E r \in Requests : EndsStored(r)]_vars

C18_Witness ==
    \E r \in Requests :
        /\ DoneClassify(r) /\ req[r].status = UnexpectedErrorStatus
        /\ "classify" \in Range(req[r].steps)
        /\ req[r].known /\ req[r].age >= ttl
        /\ CacheLen(cache, now) < Len(cache)

IsPrefix(s, t) == Len(s) <= Len(t) /\ \A i \in 1..Len(s) : s[i] = t[i]

\* The steps of a request that misses, and of a request that hits
MissPipeline ==
    <<"content_type", "read", "size", "fingerprint", "lookup", "decode", "dimensions",
      "get_classifier", "classify", "store">>

HitPipeline == <<"content_type", "read", "size", "fingerprint", "lookup", "hit">>

\* C19: a /classify request takes its steps in the fixed order content type,
\* read, size, fingerprint, lookup, then hit, or decode, dimensions,
\* classifier, store; the classifier is invoked at most once and only after a
\* miss, the store follows only a classifier call that succeeded, and a step
\* that fails is the last step of the request.
C19_StrictPipeline ==
    \A r \in Requests :
        req[r].kind = "classify"
        => LET q == req[r]
               last == q.steps[Len(q.steps)]
           IN  /\ \/ IsPrefix(q.steps, MissPipeline)
                  \/ q.steps = HitPipeline
                  \/ q.steps = <<"top_k_rejected">>
                  \/ q.steps = <<"content_type", "cancelled">>
               /\ "classify" \in Range(q.steps)
                     => ~(q.known /\ q.age < ttl /\ ~q.getFault)
               /\ q.pc = "done"
                     => /\ "store" \in Range(q.steps) => (q.runOk /\ q.status = 200)
                        /\ (q.status = 200)
                              <=> (q.steps = HitPipeline \/ q.steps = MissPipeline)
                        /\ (DeclaredImage(q.ct) /\ InRange(q.top_k)
                              /\ BytesLen(q.payload) > 10000000) => last = "size"
                        /\ "lookup" \in Range(q.steps) /\ "hit" \notin Range(q.steps)
                              => /\ q.payload = NotImg => last = "decode"
                                 /\ q.payload = ZeroImg => last = "dimensions"
                                 /\ ~q.loadOk => last = "get_classifier"
                                 /\ ~q.runOk => last = "classify"

C19_Witness ==
    \E r \in Requests :
        /\ DoneClassify(r) /\ ~req[r].runOk
        /\ req[r].status = UnexpectedErrorStatus
        /\ req[r].steps[Len(req[r].steps)] = "classify"
        /\ cache # <<>>

\* A file of a batch that cannot be classified, whatever the classifier does
BadFile(f) ==
    \/ ~DeclaredImage(f.ct)
    \/ BytesLen(f.payload) > 10000000
    \/ f.payload \in {NotImg, ZeroImg}

\* C20: in a batch of at most 10 files the failure of one item (content
\* type, size, dimensions, undecodable bytes, classifier exception) does not
\* end the batch: once the loop has started the response is 200, it has one
\* entry per file, the failing items carry an error and every other item
\* carries its top_k predictions.
C20_BatchIsolatesItemErrors ==
    \A r \in Requests :
        (Done(r) /\ req[r].kind = "batch" /\ Len(req[r].steps) > 2)
        => LET q == req[r]
           IN  /\ q.status = 200
               /\ Len(q.results) = Len(q.files)
               /\ \A j \in 1..Len(q.results) :
                      LET e == q.results[j]
                      IN  /\ e.file_index = j - 1
                          /\ BadFile(q.files[j]) => (e.has_error /\ ~e.has_predictions)
                          /\ ~BadFile(q.files[j])
                                => \/ e.has_error /\ ~e.has_predictions
                                      /\ e.error = "classifier failed"
                                   \/ ~e.has_error /\ e.has_predictions
                                      /\ Len(e.predictions) = q.top_k

C20_Witness ==
    \E r \in Requests :
        /\ Done(r) /\ req[r].kind = "batch" /\ req[r].status = 200
        /\ Len(req[r].results) = 3
        /\ req[r].results[1].has_predictions
        /\ req[r].results[2].has_error
        /\ req[r].results[3].has_predictions
        /\ req[r].successful_files = 2

\* C21: every 200 response of /classify-batch for n files has exactly n
\* entries, in input order with file_index 0..n-1, each with predictions or
\* with an error and never with both; total_files is n and successful_files
\* is the number of entries without an error.
C21_BatchResultShape ==
    \A r \in Requests :
        (Done(r) /\ req[r].kind = "batch" /\ req[r].status = 200)
        => LET q == req[r]
               n == Len(q.files)
           IN  /\ Len(q.results) = n
               /\ \A j \in 1..n :
                      /\ q.results[j].file_index = j - 1
                      /\ q.results[j].has_error # q.results[j].has_predictions
               /\ q.total_files = n
               /\ q.successful_files =
                      Cardinality({j \in 1..n : ~q.results[j].has_error})

C21_Witness ==
    \E r \in Requests :
        /\ Done(r) /\ req[r].kind = "batch" /\ req[r].status = 200
        /\ Len(req[r].files) = MaxBatch
        /\ req[r].total_files = MaxBatch
        /\ req[r].successful_files = 1
        /\ req[r].results[MaxBatch].file_index = MaxBatch - 1

\* C22: a /classify-batch request neither reads nor writes the result cache:
\* no step of a batch request changes the cache, and in every 200 response
\* each item that passed the checks was given to the classifier, also when
\* its bytes and top_k are in the cache.
C22_BatchNeverTouchesCache ==
    /\ [](\A r \in Requests :
            (Done(r) /\ req[r].kind = "batch" /\ req[r].status = 200)
            => \A j \in 1..Len(req[r].files) :
                   ~BadFile(req[r].files[j])
                   => req[r].steps[2 + j] = "item_classify")
    /\ [][\A r \in Requests :
             ((req[r].kind = "batch" \/ req'[r].kind = "batch") /\ req'[r] # req[r])
             => cache' = cache]_vars

C22_Witness ==
    \E r \in Requests :
        /\ Done(r) /\ req[r].kind = "batch" /\ req[r].status = 200
        /\ req[r].files[1] = Jpeg(ImgA)
        /\ CacheContains(cache, image_cache_key(ImgA, req[r].top_k), now)
        /\ req[r].steps[3] = "item_classify"
        /\ req[r].results[1].has_predictions

\* C23: a /classify-batch request with more than 10 files (and a top_k in
\* range) is rejected as a whole with HTTP 400 at the size check, before the
\* classifier is obtained and before any file is read or classified; a batch
\* of exactly 10 files passes the size check and, once its loop has started,
\* is answered with 200.
C23_BatchSizeLimit ==
    \A r \in Requests :
        (Done(r) /\ req[r].kind = "batch" /\ InRange(req[r].top_k))
        => LET q == req[r]
           IN  /\ Len(q.files) > 10
                  => /\ q.status = 400
                     /\ q.steps = <<"batch_size">>
                     /\ q.results = <<>>
               /\ Len(q.files) = 10
                  => /\ q.status # 400
                     /\ Len(q.steps) >= 2
                     /\ q.steps[2] = "get_classifier"
                     /\ Len(q.steps) > 2 => (q.status = 200 /\ Len(q.results) = 10)

C23_Witness ==
    \E r \in Requests :
        /\ Done(r) /\ req[r].kind = "batch" /\ req[r].status = 400
        /\ Len(req[r].files) = MaxBatch + 1
        /\ req[r].top_k = 1
        /\ classifier = "none"

\* C24: GET /health never fails: it answers 200 with status "healthy"
\* exactly when model_loaded is true, and then model_info is present; when
\* obtaining the classifier or its info raises, the body is "unhealthy" with
\* model_loaded false and model_info null; otherwise it is "healthy".
C24_HealthNeverFails ==
    \A r \in Requests :
        (Done(r) /\ req[r].kind = "health")
        => LET q == req[r]
               raised == ~q.loadOk \/ ~q.infoOk
           IN  /\ q.status = 200
               /\ q.health.status \in {"healthy", "unhealthy"}
               /\ (q.health.status = "healthy") <=> q.health.model_loaded
               /\ q.health.model_loaded => q.health.model_info = <<ModelInfo>>
               /\ raised => q.health = HealthResponse("unhealthy", FALSE, Null)
               /\ ~raised => q.health.status = "healthy"

C24_Witness ==
    \E r \in Requests :
        /\ Done(r) /\ req[r].kind = "health" /\ req[r].status = 200
        /\ req[r].health.status = "unhealthy"
        /\ ~req[r].loadOk
        /\ classifier = "none"

\* A step in which request r calls get_classifier
CallsGetClassifier(r) ==
    /\ "get_classifier" \in Range(req'[r].steps)
    /\ "get_classifier" \notin Range(req[r].steps)

\* C29: get_classifier constructs the classifier at most once successfully
\* per process: a call from any endpoint made while the global is set returns
\* it and constructs nothing, and a call made while it is unset attempts the
\* load, which either sets the global or raises and leaves it unset, so that
\* the next call attempts the load again.
C29_ClassifierLoadedOnce ==
    /\ [](loads.constructed <= 1)
    /\ [][classifier = "loaded" => (classifier' = "loaded" /\ loads' = loads)]_vars
    /\ [][\A r \in Requests :
             (CallsGetClassifier(r) /\ classifier = "none")
             => \/ /\ classifier' = "loaded"
                   /\ loads' = [constructed |-> loads.constructed + 1, failed |-> FALSE]
                \/ /\ classifier' = "none"
                   /\ loads' = [loads EXCEPT !.failed = TRUE]
                   /\ req'[r].pc = "done"
                   /\ ~req'[r].loadOk]_vars

C29_Witness ==
    \E r \in Requests :
        /\ Done(r) /\ req[r].kind = "model_info" /\ req[r].status = 200
        /\ req[r].retried
        /\ classifier = "loaded"
        /\ loads = [constructed |-> 1, failed |-> FALSE]
        /\ served = MaxRequests

\* The keys stored in the layer
LayerKeySet(c) == {c[i].key : i \in 1..Len(c)}

\* A step that is CachingLayer.set(key, ...)
LayerSetStep(key) ==
    lres'.op = "set" /\ lres'.n = lres.n + 1 /\ lres'.key = key

\* C25: CachingLayer.set evicts only when the insert would make the cache
\* exceed max_size: a set of a key that is stored, made while the cache holds
\* exactly max_size entries, overwrites that key and removes no other entry.
C25_OverwriteWhileFullEvictsNothing ==
    [][\A key \in LayerKeys :
          (LayerSetStep(key) /\ LayerHas(layer, key) /\ Len(layer) = LayerMaxSize)
          => /\ LayerKeySet(layer') = LayerKeySet(layer)
             /\ LayerItem(layer', key).value = lres'.value]_vars

\* A step that is CachingLayer.get(key)
LayerGetStep(key) ==
    lres'.op = "get" /\ lres'.n = lres.n + 1 /\ lres'.key = key

\* C26: CachingLayer.get on a key whose entry has expired (its age has
\* reached the TTL) returns absent and removes exactly that entry; get on a
\* key that is not expired or not stored leaves the entries and their
\* timestamps as they are.
C26_GetRemovesOnlyExpired ==
    [][\A key \in LayerKeys :
          LayerGetStep(key)
          => IF LayerHas(layer, key) /\ now - LayerItem(layer, key).timestamp >= LayerTtl
             THEN /\ ~lres'.found
                  /\ ~LayerHas(layer', key)
                  /\ Len(layer') = Len(layer) - 1
                  /\ \A i \in 1..Len(layer) :
                         layer[i].key # key => layer[i] \in Range(layer')
             ELSE /\ layer' = layer
                  /\ lres'.found <=> LayerHas(layer, key)]_vars

C26_Witness ==
    /\ lres.op = "get" /\ ~lres.found
    /\ lres.known /\ lres.age >= LayerTtl
    /\ lres.before = LayerMaxSize
    /\ Len(layer) = LayerMaxSize - 1
    /\ ~LayerHas(layer, lres.key)

\* An entry has expired: its age has reached the TTL
LayerExpired(e, t) == t - e.timestamp >= LayerTtl

\* C30: capacity eviction in CachingLayer.set never removes a non-expired
\* entry while an expired entry is stored: the entry it removes has the
\* smallest timestamp of all, and it is an expired one whenever the layer
\* holds an expired entry.
C30_EvictsExpiredFirst ==
    [][\A key \in LayerKeys :
          LayerSetStep(key)
          => \A i \in 1..Len(layer) :
                 (layer[i].key # key /\ ~LayerHas(layer', layer[i].key))
                 => /\ \A j \in 1..Len(layer) :
                           layer[i].timestamp <= layer[j].timestamp
                    /\ (\E j \in 1..Len(layer) : LayerExpired(layer[j], now))
                           => LayerExpired(layer[i], now)
                    /\ ~LayerExpired(layer[i], now)
                           => \A j \in 1..Len(layer') : ~LayerExpired(layer'[j], now)]_vars

C30_Witness ==
    /\ lres.op = "set"
    /\ Len(lres.evicted) = 1
    /\ LayerExpired(lres.evicted[1], now)
    /\ Len(layer) = LayerMaxSize
    /\ \A i \in 1..Len(layer) : ~LayerExpired(layer[i], now)
    /\ \E i \in 1..Len(layer) : layer[i].key # lres.key

\* C27: clear empties the cache atomically.  CachingLayer: the entries go in
\* one step of the thread that holds the lock, with no other thread inside a
\* body, so a reader finds the layer as it was before the clear or empty;
\* from then on the layer stays empty until a set stores, and a get or size
\* of the empty layer answers absent or 0.  The service's cache: clear_cache
\* empties it in one step, its size is then 0, it stays empty until a request
\* stores, and a lookup in the empty cache is a miss.
C27_ClearIsAtomic ==
    /\ [](\A t \in Threads :
            (thr[t].op = "clear" /\ InBody(t))
            => /\ lock = t
               /\ \A u \in Threads \ {t} : ~InBody(u)
               /\ thr[t].pc = "returning" => layer = <<>>)
    /\ [](cache = <<>> => get_cache_stats(cache, now).cache_size = 0)
    /\ [][\A t \in Threads :
             /\ (thr[t].pc = "clear" /\ thr'[t].pc # "clear") => layer' = <<>>
             /\ (thr[t].pc \in {"get", "size"} /\ thr'[t].pc = "returning"
                    /\ layer = <<>>)
                => thr'[t].result = 0]_vars
    /\ [][(layer = <<>> /\ layer' # <<>>)
             => \E t \in Threads : thr[t].pc = "set_put" /\ thr'[t].pc = "returning"]_vars
    /\ [][(cache' # cache /\ req' = req) => cache' = <<>>]_vars
    /\ [][(cache = <<>> /\ cache' # <<>>)
             => \E r \in Requests :
                    /\ req[r].pc = "classifying" /\ req'[r].pc = "done"
                    /\ "store" \in Range(req'[r].steps)]_vars
    /\ [][\A r \in Requests :
             (cache = <<>> /\ req[r].pc = "reading" /\ req'[r].pc # "reading")
             => "hit" \notin Range(req'[r].steps)]_vars

C27_Witness ==
    \E t, u \in Threads :
        /\ thr[t].op = "clear" /\ thr[t].pc = "returning"
        /\ thr[t].removed = LayerMaxSize
        /\ layer = <<>>
        /\ thr[u].pc = "waiting" /\ thr[u].op = "get"

\* C28: get_next_endpoint hands out the endpoints in cyclic list order:
\* current_index stays within 0..n-1, the k-th call to take its turn gets the
\* endpoint at position (k-1) mod n, and so any n consecutive calls, whatever
\* threads make them, get each endpoint exactly once.
C28_RoundRobin ==
    LET n == Len(lb.endpoints)
    IN  (process = "balancer")
        => /\ lb.current_index \in 0..(n - 1)
           /\ \A k \in 1..Len(lb.out) :
                  lb.out[k].endpoint = lb.endpoints[((k - 1) % n) + 1]
           /\ \A k \in 1..(Len(lb.out) - n + 1) :
                  \A e \in Range(lb.endpoints) :
                      Cardinality({j \in k..(k + n - 1) : lb.out[j].endpoint = e}) = 1

C28_Witness ==
    /\ process = "balancer"
    /\ Len(lb.endpoints) = 2
    /\ Len(lb.out) = 3
    /\ lb.out[1].thread # lb.out[2].thread
    /\ lb.out[3].endpoint = lb.out[1].endpoint
    /\ \E t \in Threads : lb.thr[t].pc = "waiting"

====
